---- MODULE Spec2Model ----
(***************************************************************************)
(* Verification model of nectar, the market-making daemon for BTC/DAI      *)
(* atomic swaps.                                                           *)
(*                                                                         *)
(*  - the Maker, the trading state and its reducer methods (maker.rs);     *)
(*  - the controller loop and its handlers (command/trade.rs);             *)
(*  - the swap executor hbit_herc20 / herc20_hbit (swap.rs) and the swap   *)
(*    store (swap/db/herc20.rs).                                           *)
(*                                                                         *)
(* Amounts are natural numbers of base units (satoshi, atto-dai); a rate   *)
(* is the number of DAI units one BTC unit is worth.  Option<T> is the     *)
(* set {} (None) or {v} (Some(v)).                                         *)
(***************************************************************************)
EXTENDS Integers, Sequences, FiniteSets, TLC

VARIABLES
    ctl,        \* the process: [mode: "down" | "running" | "awaiting", runs: starts so far]
    maker,      \* the Maker (trade.rs: `let mut maker`)
    last,       \* the last Maker/controller operation, its input, result and pre-state
    swarm,      \* the peer layer: [orders: positions of our orders in the book, setup: swaps being set up]
    db,         \* the swap store: [swaps: ids stored, events: per id the events saved, peers]
    tasks,      \* per swap id the task tokio::spawn(execute_swap(..)) of this run
    chan,       \* the swap-finished channel: swap ids of FinishedSwap not yet received
    ledger      \* per swap id and event: transactions our wallets broadcast for it

vars == <<ctl, maker, last, swarm, db, tasks, chan, ledger>>

(***************************************************************************)
(* Bounds of the model.                                                    *)
(***************************************************************************)
MaxBtc == 2         \* largest bitcoin balance / amount drawn
MaxDai == 2         \* largest dai balance / amount drawn

BtcAmounts == 0..MaxBtc
DaiAmounts == 0..MaxDai
Fees == {1}                 \* maximum_possible_fee.bitcoin drawn
Rates == {1, 2}             \* mid-market rates drawn (DAI units per BTC unit)
Spreads == {0, 5000}        \* spreads drawn, in permyriad (5000 = 50%)
Times == {0, 1}             \* timestamps of two rate fetches
Positions == {"Buy", "Sell"}

(***************************************************************************)
(* Option<T>                                                               *)
(***************************************************************************)
None == {}
Some(v) == {v}
IsSome(o) == o # {}
Unwrap(o) == CHOOSE v \in o : TRUE
Opt(S) == {None} \cup {Some(v) : v \in S}

Min(a, b) == IF a <= b THEN a ELSE b

(***************************************************************************)
(* Result<T>: Ok(v) or Err                                                 *)
(***************************************************************************)
Ok(v) == [ok |-> TRUE, v |-> v]
Err == [ok |-> FALSE, v |-> {}]

(***************************************************************************)
(* rate.rs (not in src/): Spread::apply, mid_market_rate x (1 +- spread),  *)
(* the spread in permyriad, truncated to an integer rate.                  *)
(***************************************************************************)
spread_apply(spread, rate, position) ==
    IF position = "Sell"
    THEN (rate * (10000 + spread)) \div 10000
    ELSE (rate * (10000 - spread)) \div 10000

(***************************************************************************)
(* order.rs (not in src/): BtcDaiOrder.  An order is                       *)
(* [position, base (BTC units), quote (DAI units)].                        *)
(***************************************************************************)
BtcDaiOrder(position, base, quote) ==
    [position |-> position, base |-> base, quote |-> quote]

\* BtcDaiOrder::new_sell: base = min(available, max_sell) - fee,
\* quote = base at the ask rate; an underflowing amount is an error.
new_sell(btc_balance, btc_fee, btc_reserved_funds, btc_max_sell_amount, rate, spread) ==
    IF btc_reserved_funds > btc_balance THEN Err
    ELSE LET available == btc_balance - btc_reserved_funds
             capped == IF IsSome(btc_max_sell_amount)
                       THEN Min(available, Unwrap(btc_max_sell_amount))
                       ELSE available
         IN  IF btc_fee > capped THEN Err
             ELSE LET base == capped - btc_fee
                      ask == spread_apply(spread, rate, "Sell")
                  IN  Ok(BtcDaiOrder("Sell", base, base * ask))

\* BtcDaiOrder::new_buy: quote = min(available, max_sell), base = quote at
\* the bid rate (floored to a BTC unit); an underflowing amount or a bid
\* rate of zero is an error.
new_buy(dai_balance, dai_reserved_funds, dai_max_sell_amount, rate, spread) ==
    IF dai_reserved_funds > dai_balance THEN Err
    ELSE LET available == dai_balance - dai_reserved_funds
             quote == IF IsSome(dai_max_sell_amount)
                      THEN Min(available, Unwrap(dai_max_sell_amount))
                      ELSE available
             bid == spread_apply(spread, rate, "Buy")
         IN  IF bid = 0 THEN Err
             ELSE Ok(BtcDaiOrder("Buy", quote \div bid, quote))

\* BtcDaiOrder::is_as_good_as(rate): the order's own rate quote/base is at
\* least `rate` when we sell, at most `rate` when we buy.  An order with
\* base 0 has no rate: error.
is_as_good_as(order, rate) ==
    IF order.base = 0 THEN Err
    ELSE IF order.position = "Sell"
         THEN Ok(order.quote >= order.base * rate)
         ELSE Ok(order.quote <= order.base * rate)

(***************************************************************************)
(* maker.rs: Maker                                                         *)
(***************************************************************************)
MidMarketRate(value, timestamp) == [value |-> value, timestamp |-> timestamp]

\* Maker::new
Maker_new(btc_balance, dai_balance, btc_fee, btc_max_sell_amount, dai_max_sell_amount, mid_market_rate, spread) ==
    [ btc_balance |-> Some(btc_balance),
      dai_balance |-> Some(dai_balance),
      btc_fee |-> btc_fee,
      btc_reserved_funds |-> 0,
      dai_reserved_funds |-> 0,
      btc_max_sell_amount |-> btc_max_sell_amount,
      dai_max_sell_amount |-> dai_max_sell_amount,
      mid_market_rate |-> Some(mid_market_rate),
      spread |-> spread ]

\* Maker::new_sell_order
new_sell_order(m) ==
    IF IsSome(m.mid_market_rate) /\ IsSome(m.btc_balance)
    THEN new_sell(Unwrap(m.btc_balance), m.btc_fee, m.btc_reserved_funds,
                  m.btc_max_sell_amount, Unwrap(m.mid_market_rate).value, m.spread)
    ELSE Err    \* RateNotAvailable(Sell) / BalanceNotAvailable(Btc)

\* Maker::new_buy_order
new_buy_order(m) ==
    IF IsSome(m.mid_market_rate) /\ IsSome(m.dai_balance)
    THEN new_buy(Unwrap(m.dai_balance), m.dai_reserved_funds,
                 m.dai_max_sell_amount, Unwrap(m.mid_market_rate).value, m.spread)
    ELSE Err    \* RateNotAvailable(Buy) / BalanceNotAvailable(Dai)

\* The value a Maker method returns together with the Maker it leaves.
Ret(m, res) == [maker |-> m, res |-> res]

\* Maker::update_rate: Ok(None) is Ok({}), Ok(Some(PublishOrders)) is
\* Ok({[new_sell_order, new_buy_order]}).
update_rate(m, mid_market_rate) ==
    IF IsSome(m.mid_market_rate) /\ Unwrap(m.mid_market_rate) = mid_market_rate
    THEN Ret(m, Ok(None))
    ELSE LET m1 == [m EXCEPT !.mid_market_rate = Some(mid_market_rate)]
             sell == new_sell_order(m1)
             buy == new_buy_order(m1)
         IN  IF ~sell.ok \/ ~buy.ok THEN Ret(m1, Err)
             ELSE Ret(m1, Ok(Some([new_sell_order |-> sell.v, new_buy_order |-> buy.v])))

\* Mutant of invalidate_rate: the balances are dropped with the rate.
invalidate_rate_and_balances(m) ==
    [m EXCEPT !.mid_market_rate = None, !.btc_balance = None, !.dai_balance = None]

\* Maker::invalidate_rate
invalidate_rate(m) == [m EXCEPT !.mid_market_rate = None]

\* Mutant of update_bitcoin_balance: the balance is not compared with the
\* previous one.
update_bitcoin_balance_always_orders(m, balance) ==
    LET m1 == [m EXCEPT !.btc_balance = Some(balance)]
        order == new_sell_order(m1)
    IN  IF ~order.ok THEN Ret(m1, Err) ELSE Ret(m1, Ok(Some(order.v)))

\* Maker::update_bitcoin_balance
update_bitcoin_balance(m, balance) ==
    IF IsSome(m.btc_balance) /\ Unwrap(m.btc_balance) = balance
    THEN Ret(m, Ok(None))
    ELSE LET m1 == [m EXCEPT !.btc_balance = Some(balance)]
             order == new_sell_order(m1)
         IN  IF ~order.ok THEN Ret(m1, Err) ELSE Ret(m1, Ok(Some(order.v)))

\* Maker::invalidate_bitcoin_balance
invalidate_bitcoin_balance(m) == [m EXCEPT !.btc_balance = None]

\* Maker::update_dai_balance
update_dai_balance(m, balance) ==
    IF IsSome(m.dai_balance) /\ Unwrap(m.dai_balance) = balance
    THEN Ret(m, Ok(None))
    ELSE LET m1 == [m EXCEPT !.dai_balance = Some(balance)]
             order == new_buy_order(m1)
         IN  IF ~order.ok THEN Ret(m1, Err) ELSE Ret(m1, Ok(Some(order.v)))

\* Maker::invalidate_dai_balance
invalidate_dai_balance(m) == [m EXCEPT !.dai_balance = None]

\* TakeRequestDecision, or "Err" for an anyhow error
Decisions == {"GoForSwap", "RateNotProfitable", "InsufficientFunds"}

\* Mutant of take_buy: a missing dai balance is read as zero.
take_buy_balance_or_default(m, order) ==
    LET dai_balance == IF IsSome(m.dai_balance) THEN Unwrap(m.dai_balance) ELSE 0
        updated_dai_reserved_funds == m.dai_reserved_funds + order.quote
    IN  IF updated_dai_reserved_funds > dai_balance
        THEN Ret(m, "InsufficientFunds")
        ELSE Ret([m EXCEPT !.dai_reserved_funds = updated_dai_reserved_funds],
                 "GoForSwap")

\* Mutant of take_buy: the balance is compared with the funds reserved so
\* far, not with the funds reserved after this order.
take_buy_checks_old_reserve(m, order) ==
    IF ~IsSome(m.dai_balance) THEN Ret(m, "Err")
    ELSE LET updated_dai_reserved_funds == m.dai_reserved_funds + order.quote
         IN  IF m.dai_reserved_funds > Unwrap(m.dai_balance)
             THEN Ret(m, "InsufficientFunds")
             ELSE Ret([m EXCEPT !.dai_reserved_funds = updated_dai_reserved_funds],
                      "GoForSwap")

\* Maker::process_taken_order, the arm of a Buy order (we fund DAI).
take_buy(m, order) ==
    IF ~IsSome(m.dai_balance) THEN Ret(m, "Err")    \* BalanceNotAvailable(Dai)
    ELSE LET updated_dai_reserved_funds == m.dai_reserved_funds + order.quote
         IN  IF updated_dai_reserved_funds > Unwrap(m.dai_balance)
             THEN Ret(m, "InsufficientFunds")
             ELSE Ret([m EXCEPT !.dai_reserved_funds = updated_dai_reserved_funds],
                      "GoForSwap")

\* Mutant of take_sell: the fee is left out of the reservation.
take_sell_without_fee(m, order) ==
    IF ~IsSome(m.btc_balance) THEN Ret(m, "Err")
    ELSE LET updated_btc_reserved_funds == m.btc_reserved_funds + order.base
         IN  IF updated_btc_reserved_funds > Unwrap(m.btc_balance)
             THEN Ret(m, "InsufficientFunds")
             ELSE Ret([m EXCEPT !.btc_reserved_funds = updated_btc_reserved_funds],
                      "GoForSwap")

\* Mutant of take_sell: the balance is compared with the funds reserved so
\* far, not with the funds reserved after this order.
take_sell_checks_old_reserve(m, order) ==
    IF ~IsSome(m.btc_balance) THEN Ret(m, "Err")
    ELSE LET updated_btc_reserved_funds ==
                 m.btc_reserved_funds + order.base + m.btc_fee
         IN  IF m.btc_reserved_funds > Unwrap(m.btc_balance)
             THEN Ret(m, "InsufficientFunds")
             ELSE Ret([m EXCEPT !.btc_reserved_funds = updated_btc_reserved_funds],
                      "GoForSwap")

\* Maker::process_taken_order, the arm of a Sell order (we fund BTC).
take_sell(m, order) ==
    IF ~IsSome(m.btc_balance) THEN Ret(m, "Err")    \* BalanceNotAvailable(Btc)
    ELSE LET updated_btc_reserved_funds ==
                 m.btc_reserved_funds + order.base + m.btc_fee
         IN  IF updated_btc_reserved_funds > Unwrap(m.btc_balance)
             THEN Ret(m, "InsufficientFunds")
             ELSE Ret([m EXCEPT !.btc_reserved_funds = updated_btc_reserved_funds],
                      "GoForSwap")

\* Maker::process_taken_order.  The rate the order is checked against is
\* the mid-market rate: current_profitable_rate is computed and not used.
process_taken_order(m, order) ==
    IF ~IsSome(m.mid_market_rate) THEN Ret(m, "Err")    \* RateNotAvailable
    ELSE LET current_mid_market_rate == Unwrap(m.mid_market_rate).value
             current_profitable_rate ==
                 spread_apply(m.spread, current_mid_market_rate, order.position)
             good == is_as_good_as(order, current_mid_market_rate)
         IN  IF ~good.ok THEN Ret(m, "Err")
             ELSE IF ~good.v THEN Ret(m, "RateNotProfitable")
             ELSE IF order.position = "Buy" THEN take_buy(m, order)
             ELSE take_sell(m, order)

\* Maker::free_funds(dai, bitcoin), both Option<Amount>.  Amount subtraction
\* panics on underflow (BigUint and ::bitcoin::Amount): free_funds_panics.
free_funds_panics(m, dai, bitcoin) ==
    \/ IsSome(dai) /\ Unwrap(dai) > m.dai_reserved_funds
    \/ IsSome(bitcoin) /\ Unwrap(bitcoin) + m.btc_fee > m.btc_reserved_funds

\* Mutant of free_funds: the fee stays reserved.
free_funds_without_fee(m, dai, bitcoin) ==
    LET m1 == IF IsSome(dai)
              THEN [m EXCEPT !.dai_reserved_funds = @ - Unwrap(dai)]
              ELSE m
    IN  IF IsSome(bitcoin)
        THEN [m1 EXCEPT !.btc_reserved_funds = @ - Unwrap(bitcoin)]
        ELSE m1

free_funds(m, dai, bitcoin) ==
    LET m1 == IF IsSome(dai)
              THEN [m EXCEPT !.dai_reserved_funds = @ - Unwrap(dai)]
              ELSE m
    IN  IF IsSome(bitcoin)
        THEN [m1 EXCEPT !.btc_reserved_funds = @ - (Unwrap(bitcoin) + m.btc_fee)]
        ELSE m1

(***************************************************************************)
(* SpecMaker: the Maker as an object.  Init is Maker::new on a drawn       *)
(* configuration, each action is one call of a public method on drawn      *)
(* inputs.  `last` records the call, its input, its result and the Maker   *)
(* before the call.  The other variables are not used.                     *)
(***************************************************************************)
Idle == <<ctl, swarm, db, tasks, chan, ledger>>

MaxSells == {<<None, None>>, <<Some(1), Some(2)>>}   \* (btc, dai) max_sell drawn

Call(op, arg, pre, res) == [op |-> op, arg |-> arg, pre |-> pre, res |-> res]

TakenOrders ==
    {BtcDaiOrder(p, b, q) : p \in Positions, b \in 1..MaxBtc, q \in DaiAmounts}

MidMarketRates == {MidMarketRate(v, t) : v \in Rates, t \in Times}

MakerInit ==
    /\ \E bb \in BtcAmounts, db0 \in DaiAmounts, fee \in Fees, ms \in MaxSells,
          r \in MidMarketRates, sp \in Spreads :
          maker = Maker_new(bb, db0, fee, ms[1], ms[2], r, sp)
    /\ last = Call("new", None, maker, "Ok")
    /\ ctl = "object"
    /\ swarm = {}
    /\ db = {}
    /\ tasks = {}
    /\ chan = <<>>
    /\ ledger = {}

Call_update_rate ==
    \E r \in MidMarketRates :
        LET ret == update_rate(maker, r)
        IN  /\ maker' = ret.maker
            /\ last' = Call("update_rate", r, maker, ret.res)
            /\ UNCHANGED Idle

Call_invalidate_rate ==
    /\ maker' = invalidate_rate(maker)
    /\ last' = Call("invalidate_rate", None, maker, "Ok")
    /\ UNCHANGED Idle

Call_update_bitcoin_balance ==
    \E b \in BtcAmounts :
        LET ret == update_bitcoin_balance(maker, b)
        IN  /\ maker' = ret.maker
            /\ last' = Call("update_bitcoin_balance", b, maker, ret.res)
            /\ UNCHANGED Idle

Call_invalidate_bitcoin_balance ==
    /\ maker' = invalidate_bitcoin_balance(maker)
    /\ last' = Call("invalidate_bitcoin_balance", None, maker, "Ok")
    /\ UNCHANGED Idle

Call_update_dai_balance ==
    \E b \in DaiAmounts :
        LET ret == update_dai_balance(maker, b)
        IN  /\ maker' = ret.maker
            /\ last' = Call("update_dai_balance", b, maker, ret.res)
            /\ UNCHANGED Idle

Call_invalidate_dai_balance ==
    /\ maker' = invalidate_dai_balance(maker)
    /\ last' = Call("invalidate_dai_balance", None, maker, "Ok")
    /\ UNCHANGED Idle

Call_process_taken_order ==
    \E order \in TakenOrders :
        LET ret == process_taken_order(maker, order)
        IN  /\ maker' = ret.maker
            /\ last' = Call("process_taken_order", order, maker, ret.res)
            /\ UNCHANGED Idle

\* The order new_sell_order / new_buy_order returns is offered back as a
\* match, with no call in between.
Call_take_published ==
    \E position \in Positions :
        LET published == IF position = "Sell" THEN new_sell_order(maker)
                         ELSE new_buy_order(maker)
            ret == process_taken_order(maker, published.v)
        IN  /\ published.ok
            /\ maker' = ret.maker
            /\ last' = Call("take_published", published.v, maker, ret.res)
            /\ UNCHANGED Idle

\* free_funds is called with the amount of a swap whose funds are reserved.
Call_free_funds ==
    \E dai \in Opt(1..MaxDai), bitcoin \in Opt(1..MaxBtc) :
        /\ (dai = None) # (bitcoin = None)
        /\ ~free_funds_panics(maker, dai, bitcoin)
        /\ maker' = free_funds(maker, dai, bitcoin)
        /\ last' = Call("free_funds", <<dai, bitcoin>>, maker, "Ok")
        /\ UNCHANGED Idle

MakerNext ==
    \/ Call_update_rate
    \/ Call_invalidate_rate
    \/ Call_update_bitcoin_balance
    \/ Call_invalidate_bitcoin_balance
    \/ Call_update_dai_balance
    \/ Call_invalidate_dai_balance
    \/ Call_process_taken_order
    \/ Call_take_published
    \/ Call_free_funds

SpecMaker == MakerInit /\ [][MakerNext]_vars

(***************************************************************************)
(* Swaps.  Two swaps can be offered by the peer layer, one of each kind,   *)
(* both by the same taker.  HbitHerc20: the taker funds hbit (BTC), we     *)
(* fund herc20 (DAI), it comes from a taken Buy order.  Herc20Hbit: the    *)
(* taker funds herc20, we fund hbit, it comes from a taken Sell order.     *)
(***************************************************************************)
SwapIds == {"s1", "s2"}

SwapKind(s) ==
    IF s = "s1"
    THEN [kind |-> "HbitHerc20", hbit_asset |-> 1, herc20_asset |-> 1, taker |-> "p1"]
    ELSE [kind |-> "Herc20Hbit", hbit_asset |-> 1, herc20_asset |-> 2, taker |-> "p1"]

\* OrderMatch.form: the order the taker took, for the swap s.
Form(s) ==
    BtcDaiOrder(IF SwapKind(s).kind = "HbitHerc20" THEN "Buy" ELSE "Sell",
                SwapKind(s).hbit_asset, SwapKind(s).herc20_asset)

\* settings.maker: maximum_possible_fee.bitcoin, spread, max_sell
Settings ==
    [btc_fee |-> 1, spread |-> 0, btc_max_sell |-> None, dai_max_sell |-> None]

(***************************************************************************)
(* swap.rs: the executor.  hbit_herc20 and herc20_hbit are sequences of    *)
(* do_it_once / try_do_it_once calls; a position is named after the line   *)
(* of the call.  For each position: the event the call produces, whether   *)
(* our wallet broadcasts a transaction for it (WalletBob) or the event is  *)
(* only watched for (WatchOnlyAlice), and the positions that follow Ok     *)
(* and Err.  "Ok" and "Err" are the function's return values.  select and  *)
(* try_join of two calls are a choice of the call that completes first.    *)
(***************************************************************************)
Step(event, wallet, ok, err) ==
    [event |-> event, wallet |-> wallet, ok |-> ok, err |-> err]

\* Mutant of hbit_herc20: a failed herc20 deploy does not stop the funding.
hbit_herc20_fund_without_deploy ==
    [ L105 |-> Step("hbit_funded", FALSE, {"L110"}, {"Ok"}),
      L110 |-> Step("herc20_deployed", TRUE, {"L119"}, {"L119"}),
      L113 |-> Step("hbit_refunded", FALSE, {"Ok"}, {"Err"}),
      L119 |-> Step("herc20_funded", TRUE, {"L128"}, {"L122"}),
      L122 |-> Step("hbit_refunded", FALSE, {"Ok"}, {"Err"}),
      L128 |-> Step("herc20_redeemed", FALSE, {"L140", "L141"}, {"L132"}),
      L132 |-> Step("hbit_refunded", FALSE, {"L133"}, {"Err"}),
      L133 |-> Step("herc20_refunded", TRUE, {"Ok"}, {"Err"}),
      L140 |-> Step("hbit_redeemed", TRUE, {"Ok"}, {"L147"}),
      L141 |-> Step("hbit_refunded", FALSE, {"Ok"}, {"L151"}),
      L147 |-> Step("hbit_refunded", FALSE, {"Ok"}, {"Err"}),
      L151 |-> Step("hbit_redeemed", TRUE, {"Ok"}, {"Err"}) ]

\* Mutant of hbit_herc20: a failed hbit fund goes on to the hbit refund.
hbit_herc20_refund_without_fund ==
    [ L105 |-> Step("hbit_funded", FALSE, {"L110"}, {"L113"}),
      L110 |-> Step("herc20_deployed", TRUE, {"L119"}, {"L113"}),
      L113 |-> Step("hbit_refunded", FALSE, {"Ok"}, {"Err"}),
      L119 |-> Step("herc20_funded", TRUE, {"L128"}, {"L122"}),
      L122 |-> Step("hbit_refunded", FALSE, {"Ok"}, {"Err"}),
      L128 |-> Step("herc20_redeemed", FALSE, {"L140", "L141"}, {"L132"}),
      L132 |-> Step("hbit_refunded", FALSE, {"L133"}, {"Err"}),
      L133 |-> Step("herc20_refunded", TRUE, {"Ok"}, {"Err"}),
      L140 |-> Step("hbit_redeemed", TRUE, {"Ok"}, {"L147"}),
      L141 |-> Step("hbit_refunded", FALSE, {"Ok"}, {"L151"}),
      L147 |-> Step("hbit_refunded", FALSE, {"Ok"}, {"Err"}),
      L151 |-> Step("hbit_redeemed", TRUE, {"Ok"}, {"Err"}) ]

hbit_herc20 ==
    [ L105 |-> Step("hbit_funded", FALSE, {"L110"}, {"Ok"}),
      L110 |-> Step("herc20_deployed", TRUE, {"L119"}, {"L113"}),
      L113 |-> Step("hbit_refunded", FALSE, {"Ok"}, {"Err"}),
      L119 |-> Step("herc20_funded", TRUE, {"L128"}, {"L122"}),
      L122 |-> Step("hbit_refunded", FALSE, {"Ok"}, {"Err"}),
      L128 |-> Step("herc20_redeemed", FALSE, {"L140", "L141"}, {"L132"}),
      L132 |-> Step("hbit_refunded", FALSE, {"L133"}, {"Err"}),
      L133 |-> Step("herc20_refunded", TRUE, {"Ok"}, {"Err"}),
      \* select(hbit_redeem, hbit_refund), lines 139-154
      L140 |-> Step("hbit_redeemed", TRUE, {"Ok"}, {"L147"}),
      L141 |-> Step("hbit_refunded", FALSE, {"Ok"}, {"L151"}),
      L147 |-> Step("hbit_refunded", FALSE, {"Ok"}, {"Err"}),
      L151 |-> Step("hbit_redeemed", TRUE, {"Ok"}, {"Err"}) ]

herc20_hbit ==
    [ L177 |-> Step("herc20_deployed", FALSE, {"L184"}, {"Ok"}),
      L184 |-> Step("herc20_funded", FALSE, {"L191"}, {"Ok"}),
      L191 |-> Step("hbit_funded", TRUE, {"L200"}, {"L194"}),
      L194 |-> Step("herc20_refunded", FALSE, {"Ok"}, {"Err"}),
      L200 |-> Step("hbit_redeemed", FALSE, {"L212", "L216"}, {"L204", "L205"}),
      \* try_join(herc20_refund, hbit_refund), lines 203-206
      L204 |-> Step("herc20_refunded", FALSE, {"L205b"}, {"Err"}),
      L205b |-> Step("hbit_refunded", TRUE, {"Ok"}, {"Err"}),
      L205 |-> Step("hbit_refunded", TRUE, {"L204b"}, {"Err"}),
      L204b |-> Step("herc20_refunded", FALSE, {"Ok"}, {"Err"}),
      \* select(herc20_redeem, herc20_refund), lines 212-229
      L212 |-> Step("herc20_redeemed", TRUE, {"Ok"}, {"L222"}),
      L216 |-> Step("herc20_refunded", FALSE, {"Ok"}, {"L226"}),
      L222 |-> Step("herc20_refunded", FALSE, {"Ok"}, {"Err"}),
      L226 |-> Step("herc20_redeemed", TRUE, {"Ok"}, {"Err"}) ]

\* SwapKind::execute: the function and its first call.
Executor(s) == IF SwapKind(s).kind = "HbitHerc20" THEN hbit_herc20 ELSE herc20_hbit
FirstCall(s) == IF SwapKind(s).kind = "HbitHerc20" THEN "L105" ELSE "L177"

\* The calls made with try_do_it_once (the forward steps up to the reveal
\* of the secret); the others are made with do_it_once.
TrySteps == {"L105", "L110", "L119", "L128", "L177", "L184", "L191", "L200"}

Events == {"hbit_funded", "hbit_redeemed", "hbit_refunded", "herc20_deployed",
           "herc20_funded", "herc20_redeemed", "herc20_refunded"}

(***************************************************************************)
(* swap/db.rs (not in src/): Database.  The value of the store is          *)
(* [swaps, events, peers]; the operations below succeed.                   *)
(***************************************************************************)
EmptyDb == [swaps |-> {}, events |-> [s \in SwapIds |-> {}], peers |-> {}]

\* Database::insert_swap: idempotent, the stored events are kept.
insert_swap(d, s) == [d EXCEPT !.swaps = @ \cup {s}]

\* Database::all_swaps
all_swaps(d) == d.swaps

\* Database::remove_swap: the record goes with its events.
remove_swap(d, s) == [d EXCEPT !.swaps = @ \ {s}, !.events[s] = {}]

\* Database::insert_active_peer / remove_active_peer
insert_active_peer(d, peer) == [d EXCEPT !.peers = @ \cup {peer}]
remove_active_peer(d, peer) == [d EXCEPT !.peers = @ \ {peer}]

\* swap/db/herc20.rs, Load<E>: the event if its slot is populated.
load(d, s, event) == IF event \in d.events[s] THEN Some(event) ELSE None

\* Mutant of save: a populated slot is written again.
save_overwrites(d, s, event) ==
    IF s \notin d.swaps THEN Err
    ELSE Ok([d EXCEPT !.events[s] = @ \cup {event}])

\* swap/db/herc20.rs, Save<E>: an error if the swap is not stored or the
\* slot is populated, otherwise the record with the slot populated is
\* swapped in.
save(d, s, event) ==
    IF s \notin d.swaps \/ event \in d.events[s] THEN Err
    ELSE Ok([d EXCEPT !.events[s] = @ \cup {event}])

(***************************************************************************)
(* Tasks.  pc is the task's position in execute_swap: "none" (no task),    *)
(* "insert_swap", a position of the executor, "send", "sending" (the       *)
(* message is in the channel, the send has not returned), "returned".      *)
(* sub is the position inside a do_it_once call; res is what swap.execute  *)
(* returned; sent counts the FinishedSwap messages the task has sent;      *)
(* awaited says that the controller awaits the task's JoinHandle.  Two     *)
(* history fields: at is the position of the executor's call that returned *)
(* last, gated the position of the try_do_it_once call that was refused    *)
(* because beta had expired ("" if none), called the positions of the      *)
(* calls that have returned and failed those that returned an error, all   *)
(* of this execution; incorrect is the position of the call that found an *)
(* incorrectly funded HTLC ("" if none).                                   *)
(***************************************************************************)
Task(pc, sub, res, sent, awaited) ==
    [pc |-> pc, sub |-> sub, res |-> res, sent |-> sent, awaited |-> awaited,
     at |-> "", gated |-> "", called |-> {}, failed |-> {}, incorrect |-> ""]

NoTask == Task("none", "load", "", 0, FALSE)
Spawned(awaited) == Task("insert_swap", "load", "", 0, awaited)

\* The task after a do_it_once call returned `next` (a position, or the
\* return value of the executor: Err leaves execute_swap by `?`).
Advance(t, next) ==
    LET u == [t EXCEPT !.sub = "load", !.at = t.pc, !.called = @ \cup {t.pc}]
    IN  IF next = "Ok" THEN [u EXCEPT !.pc = "send", !.res = "Ok"]
        ELSE IF next = "Err" THEN [u EXCEPT !.pc = "returned", !.res = "Err"]
        ELSE [u EXCEPT !.pc = next]

\* The task after the call at its position returned an error and the
\* executor went on to `next`.
Fail(t, next) == [Advance(t, next) EXCEPT !.failed = @ \cup {t.pc}]

Executing(s) == tasks[s].pc \in DOMAIN Executor(s)

(***************************************************************************)
(* command/trade.rs: the controller.                                       *)
(***************************************************************************)
MaxRuns == 2        \* starts of the process in one behaviour

NoMaker ==
    [ btc_balance |-> None, dai_balance |-> None, btc_fee |-> 0,
      btc_reserved_funds |-> 0, dai_reserved_funds |-> 0,
      btc_max_sell_amount |-> None, dai_max_sell_amount |-> None,
      mid_market_rate |-> None, spread |-> 0 ]

NoSwarm == [orders |-> {}, setup |-> {}, protocols |-> {}]

\* order.to_comit_order(maker.swap_protocol(position)): the side of the
\* published order and the position the swap protocol was asked for.
to_comit_order(order, position) == <<order.position, position>>

\* init_maker, on the balances and the rate the wallets and the rate
\* service answer with.
init_maker(btc_balance, dai_balance, rate) ==
    Maker_new(btc_balance, dai_balance, Settings.btc_fee, Settings.btc_max_sell,
              Settings.dai_max_sell, rate, Settings.spread)

\* Mutant of respawn_swaps: the fee is not reserved again.
RECURSIVE respawn_swaps_without_fee(_, _)
respawn_swaps_without_fee(swaps, m) ==
    IF swaps = {} THEN m
    ELSE LET s == CHOOSE x \in swaps : TRUE
             m1 == IF SwapKind(s).kind = "HbitHerc20"
                   THEN [m EXCEPT !.dai_reserved_funds = @ + SwapKind(s).herc20_asset]
                   ELSE [m EXCEPT !.btc_reserved_funds = @ + SwapKind(s).hbit_asset]
         IN  respawn_swaps_without_fee(swaps \ {s}, m1)

\* respawn_swaps, the Maker it leaves: the reservation of every stored swap
\* is added.  (The tasks it spawns are in Startup.)
RECURSIVE respawn_swaps(_, _)
respawn_swaps(swaps, m) ==
    IF swaps = {} THEN m
    ELSE LET s == CHOOSE x \in swaps : TRUE
             m1 == IF SwapKind(s).kind = "HbitHerc20"
                   THEN [m EXCEPT !.dai_reserved_funds = @ + SwapKind(s).herc20_asset]
                   ELSE [m EXCEPT !.btc_reserved_funds =
                                      @ + SwapKind(s).hbit_asset + m.btc_fee]
         IN  respawn_swaps(swaps \ {s}, m1)

\* Mutant of finished_swap_db: the swap is left in the store.
finished_swap_db_keeps_swap(d, s) ==
    remove_active_peer(d, SwapKind(s).taker)

\* handle_finished_swap, the store it leaves.
finished_swap_db(d, s) ==
    remove_swap(remove_active_peer(d, SwapKind(s).taker), s)

SysInit ==
    /\ ctl = [mode |-> "down", runs |-> 0]
    /\ maker = NoMaker
    /\ last = Call("none", None, NoMaker, "Ok")
    /\ swarm = NoSwarm
    /\ db = EmptyDb
    /\ tasks = [s \in SwapIds |-> NoTask]
    /\ chan = <<>>
    /\ ledger = [s \in SwapIds |-> [e \in Events |-> 0]]

\* trade(), lines 30-104: the Maker is initialised, the initial orders are
\* published, the stored swaps are respawned; then the loop is entered.
\* trade() returns an error if an initial order cannot be made.
Startup(btc_balance, dai_balance, rate) ==
    LET m0 == init_maker(btc_balance, dai_balance, rate)
        initial_sell_order == new_sell_order(m0)
        initial_buy_order == new_buy_order(m0)
        stored == all_swaps(db)
    IN  /\ ctl.mode = "down"
        /\ ctl.runs < MaxRuns
        /\ initial_sell_order.ok /\ initial_buy_order.ok
        /\ ctl' = [mode |-> "running", runs |-> ctl.runs + 1]
        /\ swarm' = [orders |-> {initial_sell_order.v.position,
                                  initial_buy_order.v.position},
                     setup |-> {},
                     protocols |-> {to_comit_order(initial_sell_order.v, "Buy"),      \* line 70
                                    to_comit_order(initial_buy_order.v, "Sell")}]     \* line 73
        /\ maker' = respawn_swaps(stored, m0)
        /\ tasks' = [s \in SwapIds |-> IF s \in stored THEN Spawned(FALSE) ELSE NoTask]
        /\ chan' = <<>>
        /\ last' = Call("startup", stored, m0, "Ok")   \* m0: the Maker the orders were made from
        /\ UNCHANGED <<db, ledger>>

\* The process is killed: what is in memory is lost, the store and the
\* ledgers stay.
Crash ==
    /\ ctl.mode # "down"
    /\ ctl' = [ctl EXCEPT !.mode = "down"]
    /\ maker' = NoMaker
    /\ swarm' = NoSwarm
    /\ tasks' = [s \in SwapIds |-> NoTask]
    /\ chan' = <<>>
    /\ last' = Call("crash", None, NoMaker, "Ok")
    /\ UNCHANGED <<db, ledger>>

\* What a handler makes of the result of the Maker's update method:
\* "Orders" (Ok(Some(..)): it publishes), "None" (Ok(None)) or "Err" (the
\* error is logged).  "Invalidated" is the outcome of an Err tick.
Outcome(res) == IF ~res.ok THEN "Err" ELSE IF IsSome(res.v) THEN "Orders" ELSE "None"

\* handle_rate_update: rate_update is Ok(rate) or Err.
handle_rate_update(rate_update) ==
    /\ ctl.mode = "running"
    /\ IF rate_update.ok
       THEN LET ret == update_rate(maker, rate_update.v)
            IN  /\ maker' = ret.maker
                /\ swarm' = IF ret.res.ok /\ IsSome(ret.res.v)
                            THEN [swarm EXCEPT !.orders = {}, !.protocols = {}]  \* publish, publish, clear
                            ELSE swarm
                /\ last' = Call("rate_update", rate_update.v, NoMaker, Outcome(ret.res))
       ELSE /\ maker' = invalidate_rate(maker)
            /\ swarm' = swarm
            /\ last' = Call("rate_update", None, maker, "Invalidated")
    /\ UNCHANGED <<ctl, db, tasks, chan, ledger>>

\* handle_btc_balance_update
handle_btc_balance_update(btc_balance_update) ==
    /\ ctl.mode = "running"
    /\ IF btc_balance_update.ok
       THEN LET ret == update_bitcoin_balance(maker, btc_balance_update.v)
            IN  /\ maker' = ret.maker
                /\ swarm' = IF ret.res.ok /\ IsSome(ret.res.v)
                            THEN [swarm EXCEPT !.orders = {Unwrap(ret.res.v).position},
                                               !.protocols = {to_comit_order(Unwrap(ret.res.v), "Sell")}]
                            ELSE swarm                      \* clear, then publish
                /\ last' = Call("btc_balance_update", btc_balance_update.v, NoMaker, Outcome(ret.res))
       ELSE /\ maker' = invalidate_bitcoin_balance(maker)
            /\ swarm' = swarm
            /\ last' = Call("btc_balance_update", None, maker, "Invalidated")
    /\ UNCHANGED <<ctl, db, tasks, chan, ledger>>

\* handle_dai_balance_update
handle_dai_balance_update(dai_balance_update) ==
    /\ ctl.mode = "running"
    /\ IF dai_balance_update.ok
       THEN LET ret == update_dai_balance(maker, dai_balance_update.v)
            IN  /\ maker' = ret.maker
                /\ swarm' = IF ret.res.ok /\ IsSome(ret.res.v)
                            THEN [swarm EXCEPT !.orders = {Unwrap(ret.res.v).position},
                                               !.protocols = {to_comit_order(Unwrap(ret.res.v), "Buy")}]
                            ELSE swarm                      \* clear, then publish
                /\ last' = Call("dai_balance_update", dai_balance_update.v, NoMaker, Outcome(ret.res))
       ELSE /\ maker' = invalidate_dai_balance(maker)
            /\ swarm' = swarm
            /\ last' = Call("dai_balance_update", None, maker, "Invalidated")
    /\ UNCHANGED <<ctl, db, tasks, chan, ledger>>

\* handle_network_event, the arm of OrderMatch, for the swap s the peer
\* layer numbers the match with (a fresh swap id).
handle_order_match(s) ==
    LET ret == process_taken_order(maker, Form(s))
    IN  /\ ctl.mode = "running"
        /\ s \notin db.swaps /\ s \notin swarm.setup
        /\ maker' = ret.maker
        /\ last' = Call("order_match", s, NoMaker, ret.res)
        /\ IF ret.res = "GoForSwap"
           THEN /\ swarm' = [swarm EXCEPT !.setup = @ \cup {s}]   \* setup_swap.send
                /\ db' = insert_active_peer(db, SwapKind(s).taker)
                /\ tasks' = [tasks EXCEPT ![s] = NoTask]
                /\ ledger' = [ledger EXCEPT ![s] = [e \in Events |-> 0]]
           ELSE UNCHANGED <<swarm, db, tasks, ledger>>
        /\ UNCHANGED <<ctl, chan>>

\* handle_network_event, the arm of SpawnSwap, up to the await of the
\* spawned task: the peer layer has set the swap s up.
handle_spawn_swap(s) ==
    /\ ctl.mode = "running"
    /\ s \in swarm.setup
    /\ swarm' = [swarm EXCEPT !.setup = @ \ {s}]
    /\ db' = insert_swap(db, s)
    /\ tasks' = [tasks EXCEPT ![s] = Spawned(TRUE)]
    /\ ctl' = [ctl EXCEPT !.mode = "awaiting"]
    /\ last' = Call("spawn_swap", s, NoMaker, "Ok")
    /\ UNCHANGED <<maker, chan, ledger>>

\* handle_network_event, the arm of SpawnSwap, after the await: the task
\* has returned and the controller goes back to its loop.
spawn_swap_joined(s) ==
    /\ ctl.mode = "awaiting"
    /\ tasks[s].awaited /\ tasks[s].pc = "returned"
    /\ ctl' = [ctl EXCEPT !.mode = "running"]
    /\ tasks' = [tasks EXCEPT ![s].awaited = FALSE]
    /\ UNCHANGED <<maker, last, swarm, db, chan, ledger>>

\* handle_finished_swap, on the message at the head of the channel.  The
\* receive lets the sender's send return.  A panic of free_funds ends the
\* process.
handle_finished_swap ==
    /\ ctl.mode = "running"
    /\ chan # <<>>
    /\ LET s == Head(chan)
           dai == IF SwapKind(s).kind = "HbitHerc20"
                  THEN Some(SwapKind(s).herc20_asset) ELSE None
           btc == IF SwapKind(s).kind = "HbitHerc20"
                  THEN None ELSE Some(SwapKind(s).hbit_asset)
       IN  IF free_funds_panics(maker, dai, btc)
           THEN /\ ctl' = [ctl EXCEPT !.mode = "down"]
                /\ maker' = NoMaker
                /\ swarm' = NoSwarm
                /\ tasks' = [t \in SwapIds |-> NoTask]
                /\ chan' = <<>>
                /\ last' = Call("crash", None, NoMaker, "Ok")
                /\ UNCHANGED <<db, ledger>>
           ELSE /\ chan' = Tail(chan)
                /\ tasks' = [tasks EXCEPT ![s].pc = "returned"]
                /\ maker' = free_funds(maker, dai, btc)
                /\ db' = finished_swap_db(db, s)
                /\ last' = Call("finished_swap", s, maker, "Ok")
                /\ UNCHANGED <<ctl, swarm, ledger>>

(***************************************************************************)
(* execute_swap, the task.                                                 *)
(***************************************************************************)
\* execute_swap, line 274: db.insert_swap
task_insert_swap(s) ==
    /\ tasks[s].pc = "insert_swap"
    /\ db' = insert_swap(db, s)
    /\ tasks' = [tasks EXCEPT ![s].pc = FirstCall(s)]
    /\ UNCHANGED <<ctl, maker, last, swarm, chan, ledger>>

\* The values the executor can return from a position on.
RECURSIVE Returns(_, _)
Returns(executor, pc) ==
    IF pc \in {"Ok", "Err"} THEN {pc}
    ELSE UNION {Returns(executor, next) : next \in executor[pc].ok \cup executor[pc].err}

\* execute_swap, lines 276-283, the whole call swap.execute(..) as one step:
\* it returns one of the values the executor can return.
swap_execute(s) ==
    /\ tasks[s].pc = FirstCall(s)
    /\ \E res \in Returns(Executor(s), FirstCall(s)) :
           tasks' = [tasks EXCEPT ![s] = Advance(@, res)]
    /\ UNCHANGED <<ctl, maker, last, swarm, db, chan, ledger>>

\* execute_swap, lines 285-294: the FinishedSwap is sent; the send returns
\* when the controller has received the message (a channel of buffer 0).
task_send(s) ==
    /\ tasks[s].pc = "send"
    /\ chan' = Append(chan, s)
    /\ tasks' = [tasks EXCEPT ![s].pc = "sending", ![s].sent = @ + 1]
    /\ UNCHANGED <<ctl, maker, last, swarm, db, ledger>>

\* A tick of an update channel: Ok(v) with a drawn value, or Err.
Tick(ok, v) == IF ok THEN Ok(v) ELSE Err

\* Spec: the controller with its ticks, matches and swaps.  The execution
\* of a swap is one step that yields what the executor returns; the events
\* it saves and the transactions it broadcasts are in SpecSwap.
Next ==
    \/ \E b \in BtcAmounts, d \in DaiAmounts, r \in MidMarketRates : Startup(b, d, r)
    \/ Crash
    \/ \E ok \in BOOLEAN, r \in MidMarketRates : handle_rate_update(Tick(ok, r))
    \/ \E ok \in BOOLEAN, b \in BtcAmounts : handle_btc_balance_update(Tick(ok, b))
    \/ \E ok \in BOOLEAN, b \in DaiAmounts : handle_dai_balance_update(Tick(ok, b))
    \/ \E s \in SwapIds : handle_order_match(s)
    \/ \E s \in SwapIds : handle_spawn_swap(s)
    \/ \E s \in SwapIds : spawn_swap_joined(s)
    \/ handle_finished_swap
    \/ \E s \in SwapIds : task_insert_swap(s)
    \/ \E s \in SwapIds : swap_execute(s)
    \/ \E s \in SwapIds : task_send(s)

Spec == SysInit /\ [][Next]_vars

(***************************************************************************)
(* swap/action.rs (not in src/): do_it_once / try_do_it_once, step by      *)
(* step.  sub is "load" (the event is looked up in the store), "gate"      *)
(* (try_do_it_once only: the beta ledger's time is compared with the beta  *)
(* expiry), "execute" (our wallet broadcasts the transaction), "watch"     *)
(* (the event is awaited on the ledger) or "save" (the event is written    *)
(* to the store).                                                          *)
(***************************************************************************)
CurrentStep(s) == Executor(s)[tasks[s].pc]

\* Mutant of Completes: either call of a select or try_join may complete
\* first, whatever the store holds.
Completes_in_any_order(s, nexts) == nexts

\* select and try_join of two calls, lines 139-154, 203-206, 212-229: of the
\* positions `nexts` that may follow, those whose call completes first.  A
\* call whose event is stored returns it from the store in its first poll,
\* before a call that has to reach a ledger.
Completes(s, nexts) ==
    LET stored == {n \in nexts \cap DOMAIN Executor(s) :
                      IsSome(load(db, s, Executor(s)[n].event))}
    IN  IF stored # {} THEN stored ELSE nexts

\* Load: the stored event is returned without touching the ledger.
do_it_once_load(s) ==
    /\ Executing(s)
    /\ tasks[s].sub = "load"
    /\ IF IsSome(load(db, s, CurrentStep(s).event))
       THEN \E next \in Completes(s, CurrentStep(s).ok) :
               tasks' = [tasks EXCEPT ![s] = Advance(@, next)]
       ELSE tasks' = [tasks EXCEPT ![s].sub =
                          IF tasks[s].pc \in TrySteps THEN "gate"
                          ELSE IF CurrentStep(s).wallet THEN "execute" ELSE "watch"]
    /\ UNCHANGED <<ctl, maker, last, swarm, db, chan, ledger>>

\* The gate of try_do_it_once: if beta has expired the call returns an error
\* without executing, otherwise the step is executed.
do_it_once_gate(s) ==
    /\ Executing(s)
    /\ tasks[s].sub = "gate"
    /\ \E safe \in BOOLEAN :
          IF safe
          THEN tasks' = [tasks EXCEPT ![s].sub =
                             IF CurrentStep(s).wallet THEN "execute" ELSE "watch"]
          ELSE \E next \in Completes(s, CurrentStep(s).err) :
                  tasks' = [tasks EXCEPT ![s] = [Fail(@, next) EXCEPT !.gated = tasks[s].pc]]
    /\ UNCHANGED <<ctl, maker, last, swarm, db, chan, ledger>>

\* Execute, the wallet's part (swap/bitcoin.rs execute_fund, spend;
\* swap/ethereum.rs deploy, fund, redeem, refund): the transaction is
\* broadcast, or the wallet fails before.
do_it_once_execute(s) ==
    /\ Executing(s)
    /\ tasks[s].sub = "execute"
    /\ \E broadcast \in BOOLEAN :
          IF broadcast
          THEN /\ ledger' = [ledger EXCEPT ![s][CurrentStep(s).event] = @ + 1]
               /\ tasks' = [tasks EXCEPT ![s].sub = "watch"]
          ELSE /\ ledger' = ledger
               /\ \E next \in Completes(s, CurrentStep(s).err) :
                      tasks' = [tasks EXCEPT ![s] = Fail(@, next)]
    /\ UNCHANGED <<ctl, maker, last, swarm, db, chan>>

\* What the watch of a step can come back with: the event as expected, an
\* error (the node fails, beta has expired) and, for the funding of the
\* herc20 HTLC, a funding with the wrong asset or amount.
Found(event) ==
    IF event = "herc20_funded" THEN {"Correctly", "Incorrectly", "Error"}
    ELSE {"Correctly", "Error"}

\* Mutant of watch_for_funded: an incorrect funding counts as a funding.
watch_for_funded_any(funded) == IF funded = "Error" THEN Err ELSE Ok(funded)

\* swap/herc20.rs watch_for_funded: Funded::Correctly is returned as
\* CorrectlyFunded, Funded::Incorrectly and an error of the watch are errors.
watch_for_funded(funded) == IF funded = "Correctly" THEN Ok(funded) ELSE Err

\* Execute, the rest: the event is found on the ledger, or the call fails
\* (the node fails, the HTLC is funded incorrectly, beta has expired).
do_it_once_watch(s) ==
    /\ Executing(s)
    /\ tasks[s].sub = "watch"
    /\ \E found \in Found(CurrentStep(s).event) :
          LET t == IF found = "Incorrectly" THEN [tasks[s] EXCEPT !.incorrect = tasks[s].pc]
                   ELSE tasks[s]
          IN  IF watch_for_funded(found).ok
              THEN tasks' = [tasks EXCEPT ![s] = [t EXCEPT !.sub = "save"]]
              ELSE \E next \in Completes(s, CurrentStep(s).err) :
                      tasks' = [tasks EXCEPT ![s] = Fail(t, next)]
    /\ UNCHANGED <<ctl, maker, last, swarm, db, chan, ledger>>

\* Save: the event is stored, or the store fails.
do_it_once_save(s) ==
    /\ Executing(s)
    /\ tasks[s].sub = "save"
    /\ \E stored \in BOOLEAN :
          LET saved == save(db, s, CurrentStep(s).event)
          IN  IF stored /\ saved.ok
              THEN /\ db' = saved.v
                   /\ \E next \in Completes(s, CurrentStep(s).ok) :
                          tasks' = [tasks EXCEPT ![s] = Advance(@, next)]
              ELSE /\ db' = db
                   /\ \E next \in Completes(s, CurrentStep(s).err) :
                          tasks' = [tasks EXCEPT ![s] = Fail(@, next)]
    /\ UNCHANGED <<ctl, maker, last, swarm, chan, ledger>>

\* SpecSwap: the execution of swaps step by step, one swap at a time, over
\* crashes and restarts of the process; the wallets are full and the rate
\* does not move.
SwapNext ==
    \/ Startup(MaxBtc, MaxDai, MidMarketRate(1, 0))
    \/ Crash
    \/ \E s \in SwapIds : db.swaps = {} /\ swarm.setup = {} /\ handle_order_match(s)
    \/ \E s \in SwapIds : handle_spawn_swap(s)
    \/ \E s \in SwapIds : spawn_swap_joined(s)
    \/ handle_finished_swap
    \/ \E s \in SwapIds : task_insert_swap(s)
    \/ \E s \in SwapIds : do_it_once_load(s)
    \/ \E s \in SwapIds : do_it_once_gate(s)
    \/ \E s \in SwapIds : do_it_once_execute(s)
    \/ \E s \in SwapIds : do_it_once_watch(s)
    \/ \E s \in SwapIds : do_it_once_save(s)
    \/ \E s \in SwapIds : task_send(s)

SpecSwap == SysInit /\ [][SwapNext]_vars

(***************************************************************************)
(* Claims about Maker::process_taken_order, checked under SpecMaker.       *)
(***************************************************************************)
Taken == last.op = "process_taken_order"

\* The funds the order would reserve, and the balance they are taken from.
WouldReserve(pre, order) ==
    IF order.position = "Sell"
    THEN pre.btc_reserved_funds + order.base + pre.btc_fee
    ELSE pre.dai_reserved_funds + order.quote

BalanceFor(pre, order) ==
    IF order.position = "Sell" THEN pre.btc_balance ELSE pre.dai_balance

\* C6: process_taken_order answers InsufficientFunds only when the
\* reservation would exceed the (valid) balance, and then the Maker is left
\* as it was; and whenever rate and balance are valid and the reservation
\* would exceed the balance, the answer is InsufficientFunds unless the rate
\* check already answered RateNotProfitable.
C6_InsufficientFunds ==
    Taken =>
        LET pre == last.pre
            order == last.arg
            exceeds == /\ IsSome(pre.mid_market_rate)
                       /\ IsSome(BalanceFor(pre, order))
                       /\ WouldReserve(pre, order) > Unwrap(BalanceFor(pre, order))
        IN  /\ last.res = "InsufficientFunds" => exceeds /\ maker = pre
            /\ exceeds => last.res \in {"InsufficientFunds", "RateNotProfitable"}

C6_Witness ==
    /\ Taken
    /\ last.res = "InsufficientFunds"
    /\ last.arg.position = "Sell"
    /\ last.pre.btc_fee = 1
    /\ last.pre.btc_reserved_funds + last.arg.base = Unwrap(last.pre.btc_balance)

\* C7: a GoForSwap for a Sell order has raised btc_reserved_funds by exactly
\* base + btc_fee, for a Buy order dai_reserved_funds by exactly quote, and
\* has changed no other field of the Maker.
C7_GoForSwapReserves ==
    (Taken /\ last.res = "GoForSwap") =>
        IF last.arg.position = "Sell"
        THEN maker = [last.pre EXCEPT !.btc_reserved_funds =
                          @ + last.arg.base + last.pre.btc_fee]
        ELSE maker = [last.pre EXCEPT !.dai_reserved_funds = @ + last.arg.quote]

C7_Witness ==
    /\ Taken
    /\ last.res = "GoForSwap"
    /\ last.arg.position = "Sell"
    /\ last.pre.btc_fee = 1
    /\ maker.btc_reserved_funds = 2

\* An order is worse than the currently profitable rate,
\* mid_market_rate x (1 + spread) when we sell, x (1 - spread) when we buy.
WorseThanProfitable(pre, order) ==
    LET profitable == spread_apply(pre.spread, Unwrap(pre.mid_market_rate).value,
                                   order.position)
    IN  IF order.position = "Sell"
        THEN order.quote < order.base * profitable
        ELSE order.quote > order.base * profitable

\* C8: with a valid rate, an order worse than the currently profitable rate
\* is answered RateNotProfitable and the Maker is unchanged.
C8_RateNotProfitable ==
    (Taken /\ IsSome(last.pre.mid_market_rate)
           /\ WorseThanProfitable(last.pre, last.arg)) =>
        (last.res = "RateNotProfitable" /\ maker = last.pre)

\* C9 as claimed: with the rate invalid, or the balance the match would
\* reserve from invalid, process_taken_order returns an error and leaves
\* both reservations unchanged; new_sell_order and new_buy_order return an
\* error while the rate is invalid.
C9_ErrorWhenUnavailable ==
    /\ (Taken /\ (~IsSome(last.pre.mid_market_rate)
                  \/ ~IsSome(BalanceFor(last.pre, last.arg)))) =>
           /\ last.res = "Err"
           /\ maker.btc_reserved_funds = last.pre.btc_reserved_funds
           /\ maker.dai_reserved_funds = last.pre.dai_reserved_funds
    /\ ~IsSome(maker.mid_market_rate) =>
           ~new_sell_order(maker).ok /\ ~new_buy_order(maker).ok

\* C9 as amended: with the rate invalid process_taken_order returns an
\* error; with the rate valid and the balance the match would reserve from
\* invalid it returns an error, or RateNotProfitable when the order fails
\* the rate check; it never answers GoForSwap and leaves the whole Maker
\* unchanged.  new_sell_order and new_buy_order return an error while the
\* rate is invalid.
C9_RejectedWhenUnavailable ==
    /\ (Taken /\ ~IsSome(last.pre.mid_market_rate)) => last.res = "Err"
    /\ (Taken /\ (~IsSome(last.pre.mid_market_rate)
                  \/ ~IsSome(BalanceFor(last.pre, last.arg)))) =>
           /\ last.res \in {"Err", "RateNotProfitable"}
           /\ maker = last.pre
    /\ ~IsSome(maker.mid_market_rate) =>
           ~new_sell_order(maker).ok /\ ~new_buy_order(maker).ok

C9_Witness ==
    /\ Taken
    /\ IsSome(last.pre.mid_market_rate)
    /\ last.arg.position = "Buy"
    /\ ~IsSome(last.pre.dai_balance)
    /\ last.res = "Err"

RECURSIVE DaiReservedBy(_)
DaiReservedBy(swaps) ==
    IF swaps = {} THEN 0
    ELSE LET s == CHOOSE x \in swaps : TRUE
         IN  (IF SwapKind(s).kind = "HbitHerc20" THEN SwapKind(s).herc20_asset ELSE 0)
             + DaiReservedBy(swaps \ {s})

RECURSIVE BtcReservedBy(_, _)
BtcReservedBy(swaps, fee) ==
    IF swaps = {} THEN 0
    ELSE LET s == CHOOSE x \in swaps : TRUE
         IN  (IF SwapKind(s).kind = "Herc20Hbit" THEN SwapKind(s).hbit_asset + fee ELSE 0)
             + BtcReservedBy(swaps \ {s}, fee)

\* C10: from the start of the process until the controller handles its
\* first event, the reserved funds are those of the swaps enumerated from
\* the store (herc20 asset in dai for HbitHerc20, hbit asset + btc_fee in
\* btc for Herc20Hbit) and exactly the enumerated swaps have a task.
C10_RespawnBeforeFirstEvent ==
    last.op = "startup" =>
        /\ ctl.mode = "running"
        /\ maker.dai_reserved_funds = DaiReservedBy(last.arg)
        /\ maker.btc_reserved_funds = BtcReservedBy(last.arg, Settings.btc_fee)
        /\ \A s \in SwapIds : (s \in last.arg) <=> (tasks[s].pc # "none")

C10_Witness ==
    /\ last.op = "startup"
    /\ last.arg = SwapIds
    /\ maker.btc_reserved_funds = 2
    /\ maker.dai_reserved_funds = 1
    /\ \A s \in SwapIds : tasks[s].pc = "insert_swap"

(***************************************************************************)
(* Claims about the execution of a swap, checked under SpecSwap.           *)
(***************************************************************************)
\* C2: for every swap and every step, our wallet broadcasts the step's
\* transaction at most once, over crashes and restarts of the process.
C2_AtMostOneBroadcast ==
    \A s \in SwapIds, e \in Events : ledger[s][e] <= 1

\* C3: an execution that has ended has sent exactly one FinishedSwap, and
\* no execution sends more than one.
C3_ExactlyOneFinishedSwap ==
    \A s \in SwapIds :
        /\ tasks[s].sent <= 1
        /\ tasks[s].pc = "returned" => tasks[s].sent = 1

\* The canonical event sequence of the role we play in a swap.
Canonical(s) ==
    IF SwapKind(s).kind = "HbitHerc20"
    THEN <<"hbit_funded", "herc20_deployed", "herc20_funded", "herc20_redeemed",
           "hbit_redeemed">>
    ELSE <<"herc20_deployed", "herc20_funded", "hbit_funded", "hbit_redeemed",
           "herc20_redeemed">>

Forward == {"hbit_funded", "hbit_redeemed", "herc20_deployed", "herc20_funded",
            "herc20_redeemed"}

IsPrefix(events, seq) ==
    \E n \in 0..Len(seq) : events \cap Forward = {seq[i] : i \in 1..n}

PrefixOfCanonical == \A s \in SwapIds : IsPrefix(db.events[s], Canonical(s))

EventsKept ==
    \A s \in SwapIds :
        (s \in db.swaps /\ s \in db'.swaps) => db.events[s] \subseteq db'.events[s]

\* C4: at every moment the events stored for a swap are a prefix of the
\* canonical sequence of its role, and no step removes a stored event of a
\* swap that stays in the store.
C4_MonotonePrefix == [](PrefixOfCanonical) /\ [][EventsKept]_vars

C4_Witness ==
    /\ ctl.runs = 2
    /\ Executing("s1")
    /\ db.events["s1"] = {"hbit_funded", "herc20_deployed", "herc20_funded", "hbit_refunded"}

\* An HTLC holds funds for the swap s: its funding is recorded in the store,
\* or our wallet has broadcast the funding transaction.
HtlcFunded(s, funded) == funded \in db.events[s] \/ ledger[s][funded] > 0

\* C11: when the gate of a forward step has refused the step (beta has
\* expired), the executor makes no further forward step; if it returns an
\* error, the error is that of a refund call and not of the gate; and when
\* it returns Ok, every HTLC that holds funds has its refund recorded.
C11_UnsafeGateRefunds ==
    \A s \in SwapIds :
        tasks[s].gated # "" =>
            /\ tasks[s].pc \notin TrySteps
            /\ tasks[s].res = "Err" => tasks[s].at \notin TrySteps
            /\ tasks[s].res = "Ok" =>
                   /\ HtlcFunded(s, "hbit_funded") => "hbit_refunded" \in db.events[s]
                   /\ HtlcFunded(s, "herc20_funded") => "herc20_refunded" \in db.events[s]

(***************************************************************************)
(* Claims about the ticks, checked under SpecMaker and Spec.               *)
(***************************************************************************)
\* C12: a rate tick whose value is the value of the rate the Maker holds
\* returns no orders (Ok(None)) and leaves the Maker, mid_market_rate
\* included, as it was.
C12_SameRateNoPublish ==
    (/\ last.op = "update_rate"
     /\ IsSome(last.pre.mid_market_rate)
     /\ Unwrap(last.pre.mid_market_rate).value = last.arg.value) =>
        (last.res = Ok(None) /\ maker = last.pre)

\* C13: when the controller has handled an Ok rate tick for which the Maker
\* returned new orders, mid_market_rate is the rate of the tick and our
\* orders in the book are the new sell order and the new buy order.
C13_RateTickPublishesBoth ==
    (last.op = "rate_update" /\ last.res = "Orders") =>
        /\ maker.mid_market_rate = Some(last.arg)
        /\ swarm.orders = {"Sell", "Buy"}

Updates == {"update_rate", "update_bitcoin_balance", "update_dai_balance"}

\* C14: when update_rate, update_bitcoin_balance or update_dai_balance
\* returns an error, the Maker after the call is the Maker before it.
C14_ErrorLeavesMakerUnchanged ==
    (last.op \in Updates /\ ~last.res.ok) => maker = last.pre

\* What a balance update must have done: nothing and no order if the balance
\* is the one held; otherwise the balance is set and, if `always`, an order
\* of the side is returned, else an order of the side is returned or the
\* call fails, and it fails exactly when the order cannot be built.
BalanceUpdated(held, set, side, order, always) ==
    IF IsSome(held) /\ Unwrap(held) = last.arg
    THEN last.res = Ok(None) /\ maker = last.pre
    ELSE /\ maker = set
         /\ always => last.res.ok
         /\ last.res.ok <=> order.ok
         /\ last.res.ok => (last.res.v = Some(order.v) /\ order.v.position = side)

Published ==
    IF last.op = "startup" THEN {"Sell", "Buy"}
    ELSE IF last.res # "Orders" THEN {}
    ELSE IF last.op = "rate_update" THEN {"Sell", "Buy"}
    ELSE IF last.op = "btc_balance_update" THEN {"Sell"}
    ELSE IF last.op = "dai_balance_update" THEN {"Buy"}
    ELSE {}

\* An Err tick has invalidated its own field of the Maker and nothing else.
ErrTickFrame ==
    last.res = "Invalidated" =>
        /\ last.op = "rate_update" => maker = [last.pre EXCEPT !.mid_market_rate = None]
        /\ last.op = "btc_balance_update" => maker = [last.pre EXCEPT !.btc_balance = None]
        /\ last.op = "dai_balance_update" => maker = [last.pre EXCEPT !.dai_balance = None]

\* C16 as claimed: an Err tick invalidates only its own field, and while
\* the rate or a balance is invalid (from the Err tick to the next Ok tick
\* of that source) no handler publishes an order.
C16_OutageSuspendsAllPublishing ==
    /\ ErrTickFrame
    /\ Published # {} =>
           /\ IsSome(maker.mid_market_rate)
           /\ IsSome(maker.btc_balance)
           /\ IsSome(maker.dai_balance)

\* C16 as amended: an Err tick invalidates only its own field; while the
\* rate is invalid no handler publishes an order, while btc_balance is
\* invalid no Sell order is published and while dai_balance is invalid no
\* Buy order is published.
C16_OutageSuspendsPublishing ==
    /\ ErrTickFrame
    /\ Published # {} => IsSome(maker.mid_market_rate)
    /\ "Sell" \in Published => IsSome(maker.btc_balance)
    /\ "Buy" \in Published => IsSome(maker.dai_balance)

C16_Witness ==
    /\ last.op = "dai_balance_update"
    /\ last.res = "Orders"
    /\ ~IsSome(maker.btc_balance)
    /\ maker.btc_reserved_funds = 2
    /\ swarm.orders = {"Buy"}

\* C17: when the controller has handled the FinishedSwap of swap s, the
\* Maker is the Maker before it with the reservation of s released: for
\* HbitHerc20 dai_reserved_funds lowered by the herc20 asset, for Herc20Hbit
\* btc_reserved_funds lowered by the hbit asset + btc_fee; the other
\* reservation, the balances and the rate are unchanged.
C17_FinishedSwapFreesReservation ==
    last.op = "finished_swap" =>
        LET s == last.arg
        IN  IF SwapKind(s).kind = "HbitHerc20"
            THEN maker = [last.pre EXCEPT !.dai_reserved_funds =
                              @ - SwapKind(s).herc20_asset]
            ELSE maker = [last.pre EXCEPT !.btc_reserved_funds =
                              @ - (SwapKind(s).hbit_asset + last.pre.btc_fee)]

C17_Witness ==
    /\ last.op = "finished_swap"
    /\ last.arg = "s2"
    /\ last.pre.btc_reserved_funds = 2
    /\ maker.btc_reserved_funds = 0
    /\ maker.dai_reserved_funds = 1

Herc20Events == {"herc20_deployed", "herc20_funded", "herc20_redeemed", "herc20_refunded"}

StoreIdle == <<ctl, maker, swarm, tasks, chan, ledger>>

StoreInit ==
    /\ db = EmptyDb
    /\ last = Call("new", None, EmptyDb, "Ok")
    /\ ctl = "store"
    /\ maker = NoMaker
    /\ swarm = {}
    /\ tasks = {}
    /\ chan = <<>>
    /\ ledger = {}

Call_insert_swap ==
    \E s \in SwapIds :
        /\ db' = insert_swap(db, s)
        /\ last' = Call("insert_swap", s, db, "Ok")
        /\ UNCHANGED StoreIdle

Call_remove_swap ==
    \E s \in SwapIds :
        /\ db' = remove_swap(db, s)
        /\ last' = Call("remove_swap", s, db, "Ok")
        /\ UNCHANGED StoreIdle

Call_save ==
    \E s \in SwapIds, event \in Herc20Events :
        LET saved == save(db, s, event)
        IN  /\ db' = IF saved.ok THEN saved.v ELSE db
            /\ last' = Call("save", <<s, event>>, db, IF saved.ok THEN "Ok" ELSE "Err")
            /\ UNCHANGED StoreIdle

Call_load ==
    \E s \in SwapIds, event \in Herc20Events :
        /\ s \in db.swaps
        /\ last' = Call("load", <<s, event>>, db, load(db, s, event))
        /\ UNCHANGED <<db, ctl, maker, swarm, tasks, chan, ledger>>

StoreNext ==
    \/ Call_insert_swap
    \/ Call_remove_swap
    \/ Call_save
    \/ Call_load

SpecStore == StoreInit /\ [][StoreNext]_vars

\* C19: a save of an event whose slot is populated for the swap fails and
\* leaves the store as it was; a save that succeeds populates the slot of
\* the event and changes nothing else.
C19_SavePopulatedSlotFails ==
    last.op = "save" =>
        LET s == last.arg[1]
            event == last.arg[2]
        IN  /\ event \in last.pre.events[s] => (last.res = "Err" /\ db = last.pre)
            /\ last.res = "Ok" =>
                   db = [last.pre EXCEPT !.events[s] = @ \cup {event}]
            /\ last.pre.events[s] \subseteq db.events[s]

C19_Witness ==
    /\ last.op = "save"
    /\ last.arg = <<"s1", "herc20_redeemed">>
    /\ last.pre.events["s1"] = Herc20Events
    /\ last.res = "Err"

(***************************************************************************)
(* publish.rs: new_dai_bitcoin_order, the sell order built from a wallet   *)
(* (balance, fees), a book (locked funds) and a cap.  A call that panics   *)
(* returns nothing: None; a call that returns v is Some(v).                *)
(***************************************************************************)
DaiBitcoinOrder(buy_amount, sell_amount) ==
    [buy_amount |-> buy_amount, sell_amount |-> sell_amount]

\* bitcoin.rs, impl Sub for Amount: Amount(self.0 - rhs.0), the subtraction
\* of ::bitcoin::Amount, which panics ("Amount subtraction error") when rhs
\* is larger than self.
Amount_sub(self, rhs) == IF rhs > self THEN None ELSE Some(self - rhs)

\* publish.rs, Spread::apply: base_rate * (1.0 + spread); the spread is in
\* permyriad, the product in ten-thousandths of a rate unit.
Spread_apply(spread, base_rate) == base_rate * (10000 + spread)

\* float_maths::truncate: the digits after the precision kept are cut off.
\* The model keeps whole rate units.
truncate(float) == float \div 10000

\* bitcoin.rs, WorthIn<dai::Amount> for Amount: "Rate is null." for a rate
\* that is (nearly) zero, else the amount times the rate, exactly.
worth_in(sats, btc_to_dai_rate) ==
    IF btc_to_dai_rate = 0 THEN Err ELSE Ok(sats * btc_to_dai_rate)

\* new_dai_bitcoin_order with the fees left in the amount sold.
new_dai_bitcoin_order_keeps_fees(bitcoin_balance, bitcoin_fees, bitcoin_locked_funds, max_sell_amount, mid_market_rate, spread) ==
    LET available == Amount_sub(bitcoin_balance, bitcoin_locked_funds)
    IN  IF available = None THEN None
        ELSE LET sell_amount == Min(Unwrap(available), max_sell_amount)
                 buy_amount == worth_in(sell_amount, truncate(Spread_apply(spread, mid_market_rate)))
             IN  IF ~buy_amount.ok THEN None
                 ELSE Some(DaiBitcoinOrder(buy_amount.v, sell_amount))

new_dai_bitcoin_order(bitcoin_balance, bitcoin_fees, bitcoin_locked_funds, max_sell_amount, mid_market_rate, spread) ==
    LET available == Amount_sub(bitcoin_balance, bitcoin_locked_funds)
    IN  IF available = None THEN None
        ELSE LET sell_amount == Amount_sub(Min(Unwrap(available), max_sell_amount), bitcoin_fees)
             IN  IF sell_amount = None THEN None
                 ELSE LET rate == truncate(Spread_apply(spread, mid_market_rate))
                          buy_amount == worth_in(Unwrap(sell_amount), rate)
                      IN  IF ~buy_amount.ok THEN None      \* .unwrap()
                          ELSE Some(DaiBitcoinOrder(buy_amount.v, Unwrap(sell_amount)))

(***************************************************************************)
(* SpecPublish: new_dai_bitcoin_order applied to drawn wallets, books,     *)
(* caps, rates and spreads; `last` records the call and what it returned.  *)
(* The other variables are not used.                                       *)
(***************************************************************************)
PublishRates == {0} \cup Rates

PublishInit ==
    /\ last = Call("new", None, None, None)
    /\ ctl = "publish"
    /\ maker = NoMaker
    /\ swarm = {}
    /\ db = {}
    /\ tasks = {}
    /\ chan = <<>>
    /\ ledger = {}

Call_new_dai_bitcoin_order ==
    \E balance \in BtcAmounts, fees \in BtcAmounts, locked_funds \in BtcAmounts,
       max_sell_amount \in BtcAmounts, mid_market_rate \in PublishRates, spread \in Spreads :
        /\ last' = Call("new_dai_bitcoin_order",
                        [balance |-> balance, fees |-> fees, locked_funds |-> locked_funds,
                         max_sell_amount |-> max_sell_amount,
                         mid_market_rate |-> mid_market_rate, spread |-> spread],
                        None,
                        new_dai_bitcoin_order(balance, fees, locked_funds, max_sell_amount,
                                              mid_market_rate, spread))
        /\ UNCHANGED <<ctl, maker, swarm, db, tasks, chan, ledger>>

PublishNext == Call_new_dai_bitcoin_order

SpecPublish == PublishInit /\ [][PublishNext]_vars

\* The computation of the amount sold underflows: more is locked than the
\* wallet holds, or the fees exceed the capped available amount.
Underflows(balance, fees, locked_funds, max_sell_amount) ==
    \/ locked_funds > balance
    \/ fees > Min(balance - locked_funds, max_sell_amount)

FeeReserves == {0, 1}

MakerFeesInit ==
    /\ \E bb \in BtcAmounts, db0 \in DaiAmounts, fee \in FeeReserves, r \in MidMarketRates :
          maker = Maker_new(bb, db0, fee, None, None, r, 0)
    /\ last = Call("new", None, maker, "Ok")
    /\ ctl = "object"
    /\ swarm = {}
    /\ db = {}
    /\ tasks = {}
    /\ chan = <<>>
    /\ ledger = {}

SpecMakerFees == MakerFeesInit /\ [][MakerNext]_vars

\* C21: when the bitcoin balance the Maker holds is its reserved amount, a
\* rate update and a bitcoin balance update return no orders, whatever the
\* fee reserve.
C21_NoSellOrderWhenNothingAvailable ==
    (/\ last.op \in {"update_rate", "update_bitcoin_balance"}
     /\ maker.btc_balance = Some(maker.btc_reserved_funds)) =>
        ~(last.res.ok /\ IsSome(last.res.v))

(***************************************************************************)
(* float_maths.rs, bitcoin.rs, dai.rs: conversion with a rate.             *)
(*                                                                         *)
(* An f64 is [class, neg, int, frac]: class is "finite", "inf" or "NaN",   *)
(* neg is the sign bit, and for a finite value int and frac are the digits *)
(* before and after the point of its decimal text (f64::to_string, which   *)
(* prints no exponent, no point for a whole number and no trailing zero).  *)
(* A call returns Ok(v) or Err, or panics: Panic.                          *)
(***************************************************************************)
MaxDigits == 10     \* most digits after the point of a rate drawn

Panic == [ok |-> FALSE, v |-> {"panic"}]
Panics(res) == ~res.ok /\ res.v # {}
IsErr(res) == ~res.ok /\ res.v = {}

Digits == {0, 1}

F64(class, neg, int, frac) == [class |-> class, neg |-> neg, int |-> int, frac |-> frac]

Mantissas == {<<>>} \cup UNION {{m \in [1..n -> Digits] : m[n] # 0} : n \in 1..MaxDigits}

Floats ==
    {F64("finite", neg, int, frac) : neg \in BOOLEAN, int \in {0, 1}, frac \in Mantissas}
        \cup {F64(class, neg, 0, <<>>) : class \in {"inf", "NaN"}, neg \in BOOLEAN}

Pow10(n) == 10 ^ n

\* BigUint::from_str of a text of digits.
RECURSIVE from_str(_)
from_str(digits) ==
    IF digits = <<>> THEN 0
    ELSE from_str(SubSeq(digits, 1, Len(digits) - 1)) * 10 + digits[Len(digits)]

\* `float <= 10e-10`: false for NaN; for a finite value without sign, the
\* first nine digits after the point are worth at most 1 and no digit
\* follows a ninth digit of 1.
le_10e_10(float) ==
    CASE float.class = "NaN" -> FALSE
      [] float.class = "inf" -> float.neg
      [] OTHER ->
            \/ float.neg
            \/ /\ float.int = 0
               /\ LET n == Len(float.frac)
                      head == from_str(SubSeq(float.frac, 1, Min(n, 9))) * Pow10(9 - Min(n, 9))
                  IN  head = 0 \/ (head = 1 /\ n <= 9)

\* Mutant of multiple_pow_ten: digits beyond `pow` are cut off.
multiple_pow_ten_truncating(float, pow) ==
    IF float.neg THEN Err
    ELSE IF float.class # "finite" THEN Panic
    ELSE LET mantissa == SubSeq(float.frac, 1, Min(Len(float.frac), pow))
         IN  Ok(float.int * Pow10(pow) + from_str(mantissa) * Pow10(pow - Len(mantissa)))

\* float_maths::multiple_pow_ten.  The text of NaN and of inf has no point
\* and is no integer: BigUint::from_str(..).expect("an integer") panics.
multiple_pow_ten(float, pow) ==
    IF float.neg THEN Err                                   \* "Float is negative"
    ELSE IF float.class # "finite" THEN Panic
    ELSE IF float.frac = <<>> THEN Ok(float.int * Pow10(pow))
    ELSE LET mantissa == float.frac
         IN  IF Len(mantissa) <= pow
             THEN Ok(float.int * Pow10(pow) + from_str(mantissa) * Pow10(pow - Len(mantissa)))
             ELSE Err                                       \* "Result is not an integer"

\* An amount too large for a machine integer is [digits, exp]: digits x 10^exp.
\* The satoshis of a dai amount are Scaled as well.
Scaled(digits, exp) == [digits |-> digits, exp |-> exp]

\* float_maths::divide_pow_ten_trunc (not in src/): the quotient by 10^exp,
\* what is left of the division cut off.
divide_pow_ten_trunc(worth, exp) ==
    IF worth.exp >= exp THEN Scaled(worth.digits, worth.exp - exp)
    ELSE Scaled(worth.digits \div Pow10(exp - worth.exp), 0)

\* n < 2^64 = 18446744073709551616.  A Scaled number with exp >= 10 is a
\* multiple of 10^10 and 2^64 - 1 holds 1844674407 of them; below exp = 10
\* the digits of the model, less than 2^31, give less than 2^64.
FitsU64(n) ==
    \/ n.digits = 0
    \/ n.exp < 10
    \/ n.exp < 20 /\ n.digits <= 1844674407 \div Pow10(n.exp - 10)

\* Mutant of to_u64: the low 64 bits are taken whatever the value.
to_u64_wrapping(n) == Some(n)

\* BigUint::to_u64 (num_traits::ToPrimitive): None when the value does not
\* fit in 64 bits.
to_u64(n) == IF FitsU64(n) THEN Some(n) ELSE None

\* bitcoin.rs, impl WorthIn<dai::Amount> for Amount, MAX_PRECISION_EXP = 9:
\* the atto-dai that `sats` are worth, as Scaled.
Amount_worth_in_dai(sats, btc_to_dai_rate) ==
    IF btc_to_dai_rate.neg THEN Err                         \* "Rate is negative."
    ELSE IF le_10e_10(btc_to_dai_rate) THEN Err             \* "Rate is null."
    ELSE IF btc_to_dai_rate.class = "inf" THEN Err          \* "Rate is infinite."
    ELSE LET uint_rate == multiple_pow_ten(btc_to_dai_rate, 9)
         IN  IF Panics(uint_rate) THEN Panic
             ELSE IF ~uint_rate.ok THEN Err                 \* "Rate's precision is too high"
             ELSE Ok(Scaled(uint_rate.v * sats, 18 - 9 - 8))

\* dai.rs, impl WorthIn<bitcoin::Amount> for Amount, MAX_PRECISION_EXP = 6:
\* the satoshis that the dai amount `self`, a Scaled number of atto-dai,
\* is worth.
Amount_worth_in_bitcoin(self, dai_to_btc_rate) ==
    IF dai_to_btc_rate.neg THEN Err
    ELSE IF le_10e_10(dai_to_btc_rate) THEN Err
    ELSE IF dai_to_btc_rate.class = "inf" THEN Err
    ELSE LET uint_rate == multiple_pow_ten(dai_to_btc_rate, 6)
         IN  IF Panics(uint_rate) THEN Panic
             ELSE IF ~uint_rate.ok THEN Err
             ELSE LET worth == Scaled(uint_rate.v * self.digits, self.exp)
                      sats == to_u64(divide_pow_ten_trunc(worth, 6 + 18 - 8))
                  IN  IF sats = None THEN Err               \* "Result is unexpectedly large"
                      ELSE Ok(CHOOSE sat \in sats : TRUE)  \* Amount::from_sat(sats)

(***************************************************************************)
(* SpecRate: the two conversions and multiple_pow_ten.  An initial state   *)
(* holds the call to make, on a drawn amount and a drawn rate; the action  *)
(* makes the call and `last` records how it ended.  The other variables    *)
(* are not used.                                                           *)
(***************************************************************************)
\* Dai amounts drawn: 1 DAI and 15 gwei of a DAI, worth less than 2^64
\* satoshis at every rate drawn, and 2 x 10^12 DAI, worth more than that at
\* the rates from 0.1 on.
SmallDai == {Scaled(1, 18), Scaled(15, 9)}
LargeDai == {Scaled(2, 30)}

Input(fn, self, rate, pow) == [fn |-> fn, self |-> self, rate |-> rate, pow |-> pow]

RateInit ==
    /\ \E rate \in Floats :
          \/ \E sats \in {0, 1} :
                last = Call("input", Input("worth_in_dai", sats, rate, 9), None, None)
          \/ \E dai \in SmallDai \cup LargeDai :
                last = Call("input", Input("worth_in_bitcoin", dai, rate, 6), None, None)
          \/ \E pow \in {6, 9} :
                last = Call("input", Input("multiple_pow_ten", None, rate, pow), None, None)
    /\ ctl = "rate"
    /\ maker = NoMaker
    /\ swarm = {}
    /\ db = {}
    /\ tasks = {}
    /\ chan = <<>>
    /\ ledger = {}

RateIdle == <<ctl, maker, swarm, db, tasks, chan, ledger>>

Call_worth_in_dai ==
    /\ last.op = "input"
    /\ last.arg.fn = "worth_in_dai"
    /\ last' = Call("worth_in_dai", last.arg, None,
                    Amount_worth_in_dai(last.arg.self, last.arg.rate))
    /\ UNCHANGED RateIdle

Call_worth_in_bitcoin ==
    /\ last.op = "input"
    /\ last.arg.fn = "worth_in_bitcoin"
    /\ last' = Call("worth_in_bitcoin", last.arg, None,
                    Amount_worth_in_bitcoin(last.arg.self, last.arg.rate))
    /\ UNCHANGED RateIdle

Call_multiple_pow_ten ==
    /\ last.op = "input"
    /\ last.arg.fn = "multiple_pow_ten"
    /\ last' = Call("multiple_pow_ten", last.arg, None,
                    multiple_pow_ten(last.arg.rate, last.arg.pow))
    /\ UNCHANGED RateIdle

RateNext ==
    \/ Call_worth_in_dai
    \/ Call_worth_in_bitcoin
    \/ Call_multiple_pow_ten

SpecRate == RateInit /\ [][RateNext]_vars

Conversions == {"worth_in_dai", "worth_in_bitcoin"}

\* The rate is negative, at most 1e-9, infinite or NaN.
InvalidRate(rate) ==
    \/ rate.class \in {"inf", "NaN"}
    \/ rate.neg
    \/ rate.int = 0 /\ \A i \in 1..Min(Len(rate.frac), 9) :
                           rate.frac[i] = 0 \/ (i = 9 /\ rate.frac[i] = 1 /\ Len(rate.frac) = 9)

\* C22: a conversion, in either direction, with a rate that is negative, at
\* most 1e-9, infinite or NaN returns an error: it returns no amount and
\* does not panic.
C22_InvalidRateIsAnError ==
    (last.op \in Conversions /\ InvalidRate(last.arg.rate)) => IsErr(last.res)

\* The i-th digit after the point of v / 10^pow.
DigitAfterPoint(v, i, pow) == (v \div Pow10(pow - i)) % 10

\* v is rate x 10^pow: the digits of v above 10^pow are those of the rate
\* before the point, the pow digits below are those after it, then zeros.
ExactlyScaled(v, rate, pow) ==
    /\ v \div Pow10(pow) = rate.int
    /\ \A i \in 1..pow :
          DigitAfterPoint(v, i, pow) = IF i <= Len(rate.frac) THEN rate.frac[i] ELSE 0

\* C23: for a rate that is a number above 1e-9, a conversion and
\* multiple_pow_ten return an error when the text of the rate has more
\* digits after the point than the precision bound (9 from BTC to DAI, 6
\* from DAI to BTC); otherwise they succeed, and the rate they scale by is
\* exactly the rate x 10^bound.
C23_TooPreciseRateRejected ==
    (/\ last.op \in Conversions \cup {"multiple_pow_ten"}
     /\ last.arg.rate.class = "finite"
     /\ ~last.arg.rate.neg
     /\ last.op \in Conversions => ~InvalidRate(last.arg.rate)
     /\ last.op = "worth_in_bitcoin" => last.arg.self \in SmallDai) =>
        LET rate == last.arg.rate
            pow == last.arg.pow
        IN  /\ last.op = "worth_in_dai" => pow = 9
            /\ last.op = "worth_in_bitcoin" => pow = 6
            /\ IF Len(rate.frac) > pow THEN IsErr(last.res)
               ELSE /\ last.res.ok
                    /\ last.op = "multiple_pow_ten" => ExactlyScaled(last.res.v, rate, pow)
                    /\ last.op = "worth_in_dai" =>
                           /\ last.res.v.exp = 1
                           /\ last.arg.self = 1 => ExactlyScaled(last.res.v.digits, rate, pow)
                           /\ last.arg.self = 0 => last.res.v.digits = 0
                    /\ (last.op = "worth_in_bitcoin" /\ last.arg.self = Scaled(1, 18)) =>
                           /\ last.res.v.exp = 2
                           /\ ExactlyScaled(last.res.v.digits, rate, pow)

\* 1.1000001 has seven digits after the point: too many for DAI to BTC.
C23_Witness ==
    /\ last.op = "worth_in_bitcoin"
    /\ last.arg.rate = F64("finite", FALSE, 1, <<1, 0, 0, 0, 0, 0, 1>>)
    /\ IsErr(last.res)

(***************************************************************************)
(* Claims about the controller and the swap tasks                          *)
(***************************************************************************)
\* C24: whenever the task of a swap started by a SpawnSwap event waits in
\* the send of its FinishedSwap, the controller can receive the message or
\* has received it and can return to its loop: the two do not wait for
\* each other.
C24_FinishedSwapReceivable ==
    \A s \in SwapIds :
        (tasks[s].awaited /\ tasks[s].pc = "sending") =>
            ENABLED (handle_finished_swap \/ spawn_swap_joined(s))

\* The task of s was started by a SpawnSwap event and has not returned.
StillExecuting(s) == tasks[s].awaited /\ tasks[s].pc \notin {"none", "returned"}

\* C25: while a swap started by a SpawnSwap event is still executing, the
\* controller can handle a rate tick and a balance tick, and a SpawnSwap for
\* another swap that was set up starts that swap's task.
C25_ControllerRunsDuringSwap ==
    \A s \in SwapIds :
        StillExecuting(s) =>
            /\ ENABLED (\E r \in MidMarketRates : handle_rate_update(Tick(TRUE, r)))
            /\ ENABLED (\E b \in BtcAmounts : handle_btc_balance_update(Tick(TRUE, b)))
            /\ \A t \in swarm.setup \ {s} : ENABLED handle_spawn_swap(t)


(***************************************************************************)
(* Claims about the arbitration of failures in swap.rs, checked under      *)
(* SpecSwap.  They are about one execution of the function: a restarted    *)
(* process calls the function anew.                                        *)
(***************************************************************************)
\* The positions the execution of s has reached: the calls that returned and
\* the call in progress.
Attempted(s) == tasks[s].called \cup (IF Executing(s) THEN {tasks[s].pc} ELSE {})

AttemptedEvent(s, event) == \E p \in Attempted(s) : Executor(s)[p].event = event

Succeeded(s, p) == p \in tasks[s].called \ tasks[s].failed

\* C26: in one execution of hbit_herc20, a failed hbit fund is followed by
\* no other call; a failed herc20 deploy or herc20 fund is followed by the
\* hbit refund and by no redeem on either ledger; and the hbit refund is
\* attempted only after the hbit fund succeeded.
C26_FailureArbitration ==
    \A s \in SwapIds :
        SwapKind(s).kind = "HbitHerc20" =>
            /\ "L105" \in tasks[s].failed => Attempted(s) = {"L105"}
            /\ tasks[s].failed \cap {"L110", "L119"} # {} =>
                   /\ AttemptedEvent(s, "hbit_refunded")
                   /\ ~AttemptedEvent(s, "herc20_redeemed")
                   /\ ~AttemptedEvent(s, "hbit_redeemed")
            /\ AttemptedEvent(s, "hbit_refunded") => Succeeded(s, "L105")

C26_Witness ==
    \E s \in SwapIds :
        /\ SwapKind(s).kind = "HbitHerc20"
        /\ "L119" \in tasks[s].failed
        /\ Succeeded(s, "L122")
        /\ tasks[s].res = "Ok"


\* The call whose success is the point of no return (the beta redeem), and
\* the two calls raced after it, each at its position in the select and at
\* its position when the other completed first with an error.
BetaRedeem(s) == IF SwapKind(s).kind = "HbitHerc20" THEN "L128" ELSE "L200"
AlphaRedeem(s) == IF SwapKind(s).kind = "HbitHerc20" THEN {"L140", "L151"} ELSE {"L212", "L226"}
AlphaRefund(s) == IF SwapKind(s).kind = "HbitHerc20" THEN {"L141", "L147"} ELSE {"L216", "L222"}
Race(s) == AlphaRedeem(s) \cup AlphaRefund(s)
AlphaEvents(s) ==
    IF SwapKind(s).kind = "HbitHerc20" THEN {"hbit_redeemed", "hbit_refunded"}
    ELSE {"herc20_redeemed", "herc20_refunded"}

Ended(s) == tasks[s].pc \in {"send", "sending", "returned"}

Started(s) ==
    Attempted(s) \cup (IF Attempted(s) \cap {"L204", "L205"} # {} THEN {"L204", "L205"} ELSE {})

StartedEvent(s, event) == \E p \in Started(s) : Executor(s)[p].event = event

\* C28: in both role pairings, once the beta redeem call has failed with
\* both HTLCs funded, the refund of each ledger is started whatever becomes
\* of the refund of the other ledger: neither waits for the other to return.
C28_RefundsIndependent ==
    \A s \in SwapIds :
        BetaRedeem(s) \in tasks[s].failed =>
            StartedEvent(s, "hbit_refunded") /\ StartedEvent(s, "herc20_refunded")


\* C29: an execution in which the beta redeem succeeded (the counterparty
\* took the asset we funded) does not return Ok with the alpha asset
\* refunded to the counterparty: when it returns Ok, the alpha redeem is the
\* call that succeeded and its event is the one stored.
C29_NoOkWithBothAssetsOnOneSide ==
    \A s \in SwapIds :
        (Succeeded(s, BetaRedeem(s)) /\ Ended(s) /\ tasks[s].res = "Ok") =>
            /\ \A p \in AlphaRefund(s) : ~Succeeded(s, p)
            /\ AlphaEvents(s) \cap db.events[s] \subseteq {"hbit_redeemed", "herc20_redeemed"}


(***************************************************************************)
(* SpecSaves: calls of Save on the store that interleave.  A call is two   *)
(* steps, the read of the stored record (self.get) and the                 *)
(* compare_and_swap of the record read with the record that has the slot   *)
(* populated.  Here `tasks` holds the callers: pc is "idle", "read" (the   *)
(* record is read, the write is to come) or "done"; s and event the call's *)
(* arguments, old the record read, res the result.  `ledger` is a history  *)
(* variable: the saves that returned Ok.  Both swaps are in the store.     *)
(***************************************************************************)
Savers == {"t1", "t2"}

Saver(pc, s, event, old, res) == [pc |-> pc, s |-> s, event |-> event, old |-> old, res |-> res]

\* Mutant of compare_and_swap: the new record is written whatever is stored.
compare_and_swap_blind(d, s, old, new) == Ok([d EXCEPT !.events[s] = new])

\* sled's compare_and_swap on the key of the swap: the new record is written
\* if the stored record is the old one, otherwise nothing is written and the
\* call fails ("Stored swap somehow changed, aborting saving").
compare_and_swap(d, s, old, new) ==
    IF s \in d.swaps /\ d.events[s] = old THEN Ok([d EXCEPT !.events[s] = new]) ELSE Err

SavesInit ==
    /\ db = insert_swap(insert_swap(EmptyDb, "s1"), "s2")
    /\ tasks = [t \in Savers |-> Saver("idle", "s1", "herc20_deployed", {}, "")]
    /\ ledger = {}
    /\ last = Call("new", None, EmptyDb, "Ok")
    /\ ctl = "saves"
    /\ maker = NoMaker
    /\ swarm = {}
    /\ chan = <<>>

\* Save, the read: self.get and the match on the slot.
Save_get(t) ==
    /\ tasks[t].pc \in {"idle", "done"}
    /\ \E s \in SwapIds, event \in Herc20Events :
          tasks' = [tasks EXCEPT ![t] =
                          IF s \notin db.swaps \/ event \in db.events[s]
                          THEN Saver("done", s, event, db.events[s], "Err")
                          ELSE Saver("read", s, event, db.events[s], "")]
    /\ UNCHANGED <<db, ledger, last, ctl, maker, swarm, chan>>

\* Save, the write: compare_and_swap(key, Some(old_value), Some(new_value)).
Save_compare_and_swap(t) ==
    /\ tasks[t].pc = "read"
    /\ LET c == tasks[t]
           written == compare_and_swap(db, c.s, c.old, c.old \cup {c.event})
       IN  /\ db' = IF written.ok THEN written.v ELSE db
           /\ ledger' = IF written.ok THEN ledger \cup {<<c.s, c.event>>} ELSE ledger
           /\ tasks' = [tasks EXCEPT ![t].pc = "done",
                                     ![t].res = IF written.ok THEN "Ok" ELSE "Err"]
    /\ UNCHANGED <<last, ctl, maker, swarm, chan>>

SavesNext ==
    \/ \E t \in Savers : Save_get(t)
    \/ \E t \in Savers : Save_compare_and_swap(t)

SpecSaves == SavesInit /\ [][SavesNext]_vars

\* Two calls that have returned, on the same swap, that read the same
\* record: both read before either wrote.
Interleaved(t, u) ==
    /\ t # u
    /\ tasks[t].pc = "done" /\ tasks[u].pc = "done"
    /\ tasks[t].s = tasks[u].s
    /\ tasks[t].old = tasks[u].old

\* C30: of two saves on the same swap that both read the record before
\* either wrote, at most one returns Ok; and when no save is between its
\* read and its write, the record of each swap holds exactly the events
\* whose save returned Ok, whichever slots the saves were for.
C30_SavesSerialized ==
    /\ \A t, u \in Savers :
           Interleaved(t, u) => ~(tasks[t].res = "Ok" /\ tasks[u].res = "Ok")
    /\ (\A t \in Savers : tasks[t].pc # "read") =>
           \A s \in SwapIds : db.events[s] = {e \in Herc20Events : <<s, e>> \in ledger}

C30_Witness ==
    /\ Interleaved("t1", "t2")
    /\ tasks["t1"].event # tasks["t2"].event
    /\ tasks["t1"].res = "Ok" /\ tasks["t2"].res = "Err"
    /\ db.events[tasks["t1"].s] = tasks["t1"].old \cup {tasks["t1"].event}


(***************************************************************************)
(* Claims about the reservations over restarts, checked under Spec and     *)
(* SpecLate.                                                               *)
(***************************************************************************)
\* The amounts handle_finished_swap frees for the swap s, lines 447-456.
FreedDai(s) == IF SwapKind(s).kind = "HbitHerc20" THEN Some(SwapKind(s).herc20_asset) ELSE None
FreedBtc(s) == IF SwapKind(s).kind = "HbitHerc20" THEN None ELSE Some(SwapKind(s).hbit_asset)

\* handle_network_event, the arm of SpawnSwap (lines 524-547), for a swap
\* whose match was not accepted in this run of the process: the arm does not
\* look at the Maker.  The peer layer accepts the setup of a swap from a peer
\* of the stored active-peer set.
spawn_swap_unmatched(s) ==
    /\ ctl.mode = "running"
    /\ s \notin swarm.setup
    /\ tasks[s].pc = "none"
    /\ SwapKind(s).taker \in db.peers
    /\ db' = insert_swap(db, s)
    /\ tasks' = [tasks EXCEPT ![s] = Spawned(TRUE)]
    /\ ctl' = [ctl EXCEPT !.mode = "awaiting"]
    /\ last' = Call("spawn_swap_unmatched", s, maker, "Ok")
    /\ UNCHANGED <<maker, swarm, chan, ledger>>

\* SpecLate: matches, swaps and restarts with full wallets and a rate that
\* does not move, where a SpawnSwap may also come for a swap that has no
\* accepted match in the current run.
LateNext ==
    \/ Startup(MaxBtc, MaxDai, MidMarketRate(1, 0))
    \/ Crash
    \/ \E s \in SwapIds : handle_order_match(s)
    \/ \E s \in SwapIds : handle_spawn_swap(s)
    \/ \E s \in SwapIds : spawn_swap_unmatched(s)
    \/ \E s \in SwapIds : spawn_swap_joined(s)
    \/ handle_finished_swap
    \/ \E s \in SwapIds : task_insert_swap(s)
    \/ \E s \in SwapIds : swap_execute(s)
    \/ \E s \in SwapIds : task_send(s)

SpecLate == SysInit /\ [][LateNext]_vars

Outstanding == swarm.setup \cup db.swaps

ReservedFor(swaps) ==
    /\ maker.btc_reserved_funds = BtcReservedBy(swaps, maker.btc_fee)
    /\ maker.dai_reserved_funds = DaiReservedBy(swaps)

\* C32: while the process runs, the reserved totals are the sums over the
\* outstanding matches and swaps, and they are the totals a restart would
\* rebuild from the store.
C32_ReservationsConserved ==
    ctl.mode # "down" => (ReservedFor(Outstanding) /\ ReservedFor(all_swaps(db)))


\* The FinishedSwap of s is in the channel, to be handled.
InChannel(s) == \E i \in 1..Len(chan) : chan[i] = s

\* C33: the reservation of an accepted match is released also when the
\* execution of its swap ends with an error: once the task has returned the
\* error and the controller is in its loop, the swap is no longer
\* outstanding (its funds are freed, it is out of the store) or its
\* FinishedSwap is on its way to the controller.
C33_ReservationReleased ==
    \A s \in SwapIds :
        (ctl.mode = "running" /\ tasks[s].pc = "returned" /\ tasks[s].res = "Err") =>
            (s \notin Outstanding \/ InChannel(s))


\* C34: every peer that has an unfinished swap with us (an accepted match or
\* a swap in the store) is in the active-peer set.
C34_ActivePeersCoverSwaps ==
    \A s \in Outstanding : SwapKind(s).taker \in db.peers


(***************************************************************************)
(* Claims about the orders published, checked under Spec.                  *)
(***************************************************************************)
AllValid(m) == IsSome(m.mid_market_rate) /\ IsSome(m.btc_balance) /\ IsSome(m.dai_balance)

\* C35: after a balance tick of one asset was handled and made a new order,
\* with the rate and both balances valid, the orderbook holds a sell order
\* and a buy order: the order of the other side is not withdrawn.
C35_BalanceTickKeepsOtherOrder ==
    (/\ last.op \in {"btc_balance_update", "dai_balance_update"}
     /\ last.res = "Orders"
     /\ AllValid(maker)) =>
        swarm.orders = Positions


\* C36: right after the start of the process, the initial orders (made from
\* the Maker that init_maker returned, lines 60-66) offer no more than the
\* balance less the funds reserved for the respawned swaps (an order of
\* amount zero offers nothing).
C36_InitialOrdersWithinAvailable ==
    last.op = "startup" =>
        LET initial_sell_order == new_sell_order(last.pre).v
            initial_buy_order == new_buy_order(last.pre).v
        IN  /\ initial_sell_order.base > 0 =>
                   initial_sell_order.base + maker.btc_reserved_funds <= Unwrap(maker.btc_balance)
            /\ initial_buy_order.quote > 0 =>
                   initial_buy_order.quote + maker.dai_reserved_funds <= Unwrap(maker.dai_balance)


\* C37: every order in the orderbook was published with the swap protocol
\* of its own side: swap_protocol(Sell) for a sell order, swap_protocol(Buy)
\* for a buy order.
C37_ProtocolOfOwnSide ==
    \A o \in swarm.protocols : o[1] = o[2]


(***************************************************************************)
(* SpecTicks: the three update channels, command/trade.rs lines 179-262    *)
(* and the receiving arms of the loop, lines 125-133.  Here `tasks` holds  *)
(* the producers: pc is "fetch", "send", "flush" (the tick is in the       *)
(* channel, send(..).await has not returned) or "delay"; n numbers the     *)
(* tick fetched last; parked is the sender's state in the channel.  `chan` *)
(* holds the queue of each channel and `ledger`, a history variable, the   *)
(* ticks the controller has received from it, in order.  A channel of the  *)
(* futures crate parks the sender when a send leaves more messages queued  *)
(* than the buffer, and the receiver unparks it when it takes a message;   *)
(* a parked sender is not ready and its send does not return.              *)
(***************************************************************************)
MaxTicks == 3       \* ticks a producer fetches in one behaviour

Producers == {"rate", "btc_balance", "dai_balance"}

\* Mutant of ENSURED_CONSUME_ZERO_BUFFER: a buffer of one message.
ONE_MESSAGE_BUFFER == Len(<<"tick">>)

ENSURED_CONSUME_ZERO_BUFFER == 0

TicksInit ==
    /\ tasks = [p \in Producers |-> [pc |-> "fetch", n |-> 0, parked |-> FALSE]]
    /\ chan = [p \in Producers |-> <<>>]
    /\ ledger = [p \in Producers |-> <<>>]
    /\ last = Call("new", None, None, "Ok")
    /\ ctl = "ticks"
    /\ maker = NoMaker
    /\ swarm = {}
    /\ db = {}

TicksIdle == <<ctl, maker, last, swarm, db>>

\* get_btc_dai_mid_market_rate().await / wallet.balance().await
tick_fetch(p) ==
    /\ tasks[p].pc = "fetch"
    /\ tasks[p].n < MaxTicks
    /\ tasks' = [tasks EXCEPT ![p].pc = "send", ![p].n = @ + 1]
    /\ UNCHANGED <<chan, ledger>>
    /\ UNCHANGED TicksIdle

\* sender.send(..).await, the start: the sender is ready, the tick is queued.
tick_send(p) ==
    /\ tasks[p].pc = "send"
    /\ ~tasks[p].parked
    /\ chan' = [chan EXCEPT ![p] = Append(@, tasks[p].n)]
    /\ tasks' = [tasks EXCEPT ![p].pc = "flush",
                              ![p].parked = Len(chan[p]) + 1 > ENSURED_CONSUME_ZERO_BUFFER]
    /\ UNCHANGED ledger
    /\ UNCHANGED TicksIdle

\* sender.send(..).await returns: the sender is ready again.
tick_flush(p) ==
    /\ tasks[p].pc = "flush"
    /\ ~tasks[p].parked
    /\ tasks' = [tasks EXCEPT ![p].pc = "delay"]
    /\ UNCHANGED <<chan, ledger>>
    /\ UNCHANGED TicksIdle

\* Delay::new(update_interval).await
tick_delay(p) ==
    /\ tasks[p].pc = "delay"
    /\ tasks' = [tasks EXCEPT ![p].pc = "fetch"]
    /\ UNCHANGED <<chan, ledger>>
    /\ UNCHANGED TicksIdle

\* The loop's arm of the channel: receiver.next() yields the tick at the head
\* and the handler runs on it.
tick_receive(p) ==
    /\ chan[p] # <<>>
    /\ chan' = [chan EXCEPT ![p] = Tail(@)]
    /\ ledger' = [ledger EXCEPT ![p] = Append(@, Head(chan[p]))]
    /\ tasks' = [tasks EXCEPT ![p].parked = FALSE]
    /\ UNCHANGED TicksIdle

TicksNext ==
    \/ \E p \in Producers : tick_fetch(p)
    \/ \E p \in Producers : tick_send(p)
    \/ \E p \in Producers : tick_flush(p)
    \/ \E p \in Producers : tick_delay(p)
    \/ \E p \in Producers : tick_receive(p)

SpecTicks == TicksInit /\ [][TicksNext]_vars

\* C38: on each update channel at most one tick is sent and not yet
\* received; the producer has fetched at most one tick more than the
\* controller has received, and fetches the next one only after the
\* previous one was received; and the controller receives the ticks in the
\* order they were sent.
C38_RendezvousWithBackpressure ==
    \A p \in Producers :
        /\ Len(chan[p]) <= 1
        /\ tasks[p].n <= Len(ledger[p]) + 1
        /\ tasks[p].pc \in {"delay", "fetch"} => tasks[p].n = Len(ledger[p])
        /\ \A i \in 1..Len(ledger[p]) : ledger[p][i] = i

C38_Witness ==
    /\ tasks["rate"].pc = "flush" /\ tasks["rate"].parked
    /\ chan["rate"] = <<2>>
    /\ ledger["rate"] = <<1>>
    /\ Len(ledger["btc_balance"]) = MaxTicks


\* C39, checked under SpecSwap: in an execution in which the funding of the
\* herc20 HTLC was found incorrect, the call that watched for it has failed,
\* no herc20 funded event is stored, no redeem of either HTLC is attempted,
\* and the executor goes where it goes when the funding does not happen: to
\* the hbit refund when we are the ones who fund herc20 (hbit is funded), to
\* its return when the counterparty does (we have funded nothing).
C39_IncorrectFundingIsNoFunding ==
    \A s \in SwapIds :
        tasks[s].incorrect # "" =>
            /\ tasks[s].incorrect \in tasks[s].failed
            /\ "herc20_funded" \notin db.events[s]
            /\ ~AttemptedEvent(s, "herc20_redeemed")
            /\ ~AttemptedEvent(s, "hbit_redeemed")
            /\ Attempted(s) = IF SwapKind(s).kind = "HbitHerc20"
                              THEN {"L105", "L110", "L119", "L122"}
                              ELSE {"L177", "L184"}

C39_Witness ==
    \E s \in SwapIds :
        /\ tasks[s].incorrect = "L119"
        /\ Succeeded(s, "L122")
        /\ tasks[s].res = "Ok"
        /\ db.events[s] = {"hbit_funded", "herc20_deployed", "hbit_refunded"}

(***************************************************************************)
(* C40: the conversions against the reference integer conversion.          *)
(***************************************************************************)
\* A rate a conversion accepts: a number above 1e-9 whose text has at most
\* `pow` digits after the point.
ValidRate(rate, pow) ==
    /\ rate.class = "finite"
    /\ ~rate.neg
    /\ ~InvalidRate(rate)
    /\ Len(rate.frac) <= pow

\* The digits of `frac` from the i-th on, each at its place in rate x 10^pow.
RECURSIVE PlaceValues(_, _, _)
PlaceValues(frac, i, pow) ==
    IF i > Len(frac) THEN 0
    ELSE frac[i] * Pow10(pow - i) + PlaceValues(frac, i + 1, pow)

\* rate x 10^pow, for a valid rate.
RateTimesPow10(rate, pow) == rate.int * Pow10(pow) + PlaceValues(rate.frac, 1, pow)

\* floor(attos x (rate x 10^6) / 10^(6 + 18 - 8)), as Scaled.
FloorSats(attos, rate) ==
    LET product == attos.digits * RateTimesPow10(rate, 6)
        by == 6 + 18 - 8
    IN  IF attos.exp >= by THEN Scaled(product, attos.exp - by)
        ELSE Scaled(product \div Pow10(by - attos.exp), 0)

\* Two Scaled numbers are the same number.
SameNumber(x, y) ==
    LET e == Min(x.exp, y.exp)
    IN  x.digits * Pow10(x.exp - e) = y.digits * Pow10(y.exp - e)

\* C40: for every valid rate and amount, BTC to DAI returns
\* sats x (rate x 10^9) x 10^(18-9-8) atto-dai, nothing cut off; DAI to BTC
\* returns floor(attos x (rate x 10^6) / 10^(6+18-8)) satoshis when that is
\* below 2^64 and an error, not an amount, when it is not.
C40_WorthInIsReference ==
    /\ (last.op = "worth_in_dai" /\ ValidRate(last.arg.rate, 9)) =>
          /\ last.res.ok
          /\ last.res.v.exp = 18 - 9 - 8
          /\ last.res.v.digits = last.arg.self * RateTimesPow10(last.arg.rate, 9)
    /\ (last.op = "worth_in_bitcoin" /\ ValidRate(last.arg.rate, 6)) =>
          LET sats == FloorSats(last.arg.self, last.arg.rate)
          IN  IF FitsU64(sats) THEN last.res.ok /\ SameNumber(last.res.v, sats)
              ELSE IsErr(last.res)

\* 2 x 10^12 DAI at the rate 1.1 are worth 2.2 x 10^20 satoshis, more than
\* 2^64: the conversion returned an error.
C40_Witness ==
    /\ last.op = "worth_in_bitcoin"
    /\ last.arg.self \in LargeDai
    /\ last.arg.rate = F64("finite", FALSE, 1, <<1>>)
    /\ IsErr(last.res)

====
